---- MODULE Spec2Model ----
(***************************************************************************)
(* A model of the planning pipeline of SimpleWorkflowService               *)
(* (src/frontend/src/services/simpleWorkflowService.ts): the constructor's *)
(* unawaited table load, runWorkflow, processHumanInput and the pure       *)
(* stages they call.                                                       *)
(*                                                                         *)
(* Numbers.  Forecasts, costs, budgets and capacities are integers.  The   *)
(* quantile polynomial is evaluated exactly, as a ratio of two big         *)
(* integers (the source's decimal literals scaled by 10^16), so that the   *)
(* ceiling taken by calculateNewsvendorQuantity is decided exactly.  The   *)
(* non-finite doubles the source can produce (Infinity, NaN) are the       *)
(* kinds "inf" and "nan" of a newsvendor result.                           *)
(***************************************************************************)
EXTENDS Integers, Sequences, FiniteSets, TLC

(***************************************************************************)
(* Bounds of the model.                                                    *)
(***************************************************************************)
MaxYhat == 5
MaxBudget == 100
MaxCapacity == 4
MaxHumanInputs == 1

(***************************************************************************)
(* Program constants.                                                      *)
(***************************************************************************)
FallbackBudget == 10000
FallbackCapacity == 1000
WarehouseId == 11
PriceMarkup == 10

(***************************************************************************)
(* Big integers: a sequence of limbs, least significant first, denoting    *)
(* the sum of limb[i] * BASE^(i-1).  Limbs may be negative; BigNorm brings *)
(* every limb but the last into 0..BASE-1, so that the sign of the number  *)
(* is the sign of its last non-zero limb.                                  *)
(***************************************************************************)
BASE == 100 * 100

RECURSIVE BigCarry(_, _, _)
BigCarry(x, i, carry) ==
  IF i > Len(x)
  THEN IF carry = 0 THEN << >>
       ELSE IF carry > -BASE /\ carry < BASE THEN <<carry>>
       ELSE <<carry % BASE>> \o BigCarry(x, i, carry \div BASE)
  ELSE LET v == x[i] + carry
       IN  <<v % BASE>> \o BigCarry(x, i + 1, v \div BASE)

RECURSIVE BigStrip(_)
BigStrip(x) ==
  IF Len(x) > 0 /\ x[Len(x)] = 0 THEN BigStrip(SubSeq(x, 1, Len(x) - 1)) ELSE x

BigNorm(x) == BigStrip(BigCarry(x, 1, 0))

BigFromInt(n) == BigNorm(<<n>>)

BigSign(x) ==
  LET n == BigNorm(x)
  IN  IF Len(n) = 0 THEN 0 ELSE IF n[Len(n)] > 0 THEN 1 ELSE -1

BigLimb(x, i) == IF i >= 1 /\ i <= Len(x) THEN x[i] ELSE 0

BigAdd(x, y) ==
  LET n == IF Len(x) > Len(y) THEN Len(x) ELSE Len(y)
  IN  BigNorm([i \in 1..n |-> BigLimb(x, i) + BigLimb(y, i)])

BigNeg(x) == [i \in 1..Len(x) |-> 0 - x[i]]

BigSub(x, y) == BigAdd(x, BigNeg(y))

RECURSIVE BigDot(_, _, _, _)
\* the sum of x[i] * y[k + 1 - i] for i in lo..Len(x)
BigDot(x, y, k, i) ==
  IF i > Len(x) THEN 0
  ELSE x[i] * BigLimb(y, k + 1 - i) + BigDot(x, y, k, i + 1)

BigMul(x, y) ==
  LET a == BigNorm(x)
      b == BigNorm(y)
  IN  IF Len(a) = 0 \/ Len(b) = 0 THEN << >>
      ELSE BigNorm([k \in 1..(Len(a) + Len(b) - 1) |-> BigDot(a, b, k, 1)])

RECURSIVE BigPow(_, _)
BigPow(x, n) == IF n = 0 THEN <<1>> ELSE BigMul(x, BigPow(x, n - 1))

(***************************************************************************)
(* inverseNormalCDF.  The coefficients are the source's literals times     *)
(* 10^16 = BASE^4.  The argument is the ratio pn / pd with pd > 0.  The    *)
(* result is "-inf", "+inf", or the ratio num / den of two big integers;   *)
(* regime names the branch of the source that computed it.                 *)
(***************************************************************************)
a0 == <<-7600, -6653, -3028, -6968, -39>>
a1 == <<5000, 4520, 9842, 9460, 220>>
a2 == <<-7000, -6968, -1044, -9285, -275>>
a3 == <<0, 7269, 5186, 3577, 138>>
a4 == <<-100, -6142, -9806, -6647, -30>>
a5 == <<2390, 7459, 2827, 5066, 2>>
b1 == <<-600, -8224, -9879, -4760, -54>>
b2 == <<9000, 8040, 3685, 5858, 161>>
b3 == <<-6000, -9886, -7985, -6989, -155>>
b4 == <<7200, 7719, 1188, 8013, 66>>
b5 == <<-7200, -2885, -8155, -2806, -13>>
One16 == <<0, 0, 0, 0, 1>>

RECURSIVE Horner(_, _, _, _, _)
\* cs[1] r^(n-1) + ... + cs[n], for r = rn / rd, times BASE^4 * rd^(n-1)
Horner(cs, rn, rd, i, acc) ==
  IF i > Len(cs) THEN acc
  ELSE Horner(cs, rn, rd, i + 1,
              BigAdd(BigMul(acc, rn), BigMul(cs[i], BigPow(rd, i - 1))))

PolyA(rn, rd) == Horner(<<a5, a4, a3, a2, a1, a0>>, rn, rd, 2, a5)
PolyB(rn, rd) == Horner(<<b5, b4, b3, b2, b1, One16>>, rn, rd, 2, b5)

\* which branch of the source handles p = pn / pd: split1 = 0.425, split2 = 5.0
Regime(pn, pd) ==
  IF pn <= 0 THEN "-inf"
  ELSE IF pn >= pd THEN "+inf"
  ELSE IF pn * 1000 < 425 * pd THEN "central"
  ELSE IF pn < 5 * pd THEN "symmetric"
  ELSE "tail"

inverseNormalCDF(pn, pd) ==
  LET regime == Regime(pn, pd)
  IN  CASE regime = "central" ->
             \* r = const1 - p * p, const1 = 0.180625;  val = p * A(r) / B(r)
             LET rn == BigSub(BigMul(BigFromInt(180625), BigFromInt(pd * pd)),
                              BigMul(BigFromInt(1000000), BigFromInt(pn * pn)))
                 rd == BigMul(BigFromInt(1000000), BigFromInt(pd * pd))
             IN  [kind |-> "fin", regime |-> regime,
                  num |-> BigMul(BigFromInt(pn), PolyA(rn, rd)),
                  den |-> BigMul(BigFromInt(pd), PolyB(rn, rd))]
        [] regime = "symmetric" ->
             \* r = p - 0.5, r2 = r * r;  val = A(r2) * r / B(r2)
             LET rn == BigFromInt((2 * pn - pd) * (2 * pn - pd))
                 rd == BigFromInt(4 * pd * pd)
             IN  [kind |-> "fin", regime |-> regime,
                  num |-> BigMul(BigFromInt(2 * pn - pd), PolyA(rn, rd)),
                  den |-> BigMul(BigFromInt(2 * pd), PolyB(rn, rd))]
        [] OTHER -> [kind |-> regime, regime |-> regime]

(***************************************************************************)
(* calculateNewsvendorQuantity.  The confidence bounds are given in tenths *)
(* (the source passes 0.8 and 1.2 times the target), so that               *)
(* stdDev = (high - low) / (2 * 1.96) = 10 * (high10 - low10) / 392.       *)
(* The result is [kind |-> "fin", val |-> an integer >= 0], or the kind    *)
(* "inf" or "nan" of the double the source returns.                        *)
(***************************************************************************)
RECURSIVE LeastFrom(_, _, _, _)
\* the least k in lo..hi with (k - demand) * x >= y, given that hi is one
LeastFrom(lo, hi, x, yd) ==
  IF lo >= hi THEN hi
  ELSE LET mid == (lo + hi) \div 2
       IN  IF BigSign(BigSub(BigMul(BigFromInt(mid), x), yd)) >= 0
           THEN LeastFrom(lo, mid, x, yd)
           ELSE LeastFrom(mid + 1, hi, x, yd)

RECURSIVE Gallop(_, _, _)
Gallop(hi, x, yd) ==
  IF BigSign(BigSub(BigMul(BigFromInt(hi), x), yd)) >= 0 THEN hi
  ELSE Gallop(2 * hi + 1, x, yd)

\* a variant of CeilMax0 that leaves the uncertainty term out
CeilMax0Mean(demand, wn, z) == demand

\* Math.ceil(Math.max(0, demand + (wn / 392) * (num / den)))
CeilMax0(demand, wn, z) ==
  LET sg == BigSign(z.den)
      x == BigMul(BigFromInt(392 * sg), z.den)
      \* k >= demand + wn * num / (392 * den)  iff  k * x >= yd
      yd == BigAdd(BigMul(BigFromInt(wn * sg), z.num), BigMul(BigFromInt(demand), x))
  IN  LeastFrom(0, Gallop(0, x, yd), x, yd)

calculateNewsvendorQuantity(demand, confidenceLow10, confidenceHigh10, holdingCost, shortageCost) ==
  LET wn == 10 * (confidenceHigh10 - confidenceLow10)
      p == shortageCost + PriceMarkup
      c == holdingCost
      z == inverseNormalCDF(p - c, p)
      up == [kind |-> "inf"]
      nan == [kind |-> "nan"]
      zero == [kind |-> "fin", val |-> 0]
  IN  CASE z.kind = "+inf" -> IF wn > 0 THEN up ELSE IF wn = 0 THEN nan ELSE zero
        [] z.kind = "-inf" -> IF wn > 0 THEN zero ELSE IF wn = 0 THEN nan ELSE up
        [] z.kind = "fin" ->
             IF BigSign(z.den) = 0 THEN nan
             ELSE [kind |-> "fin", val |-> CeilMax0(demand, wn, z)]
        [] OTHER -> nan

(***************************************************************************)
(* Values.  null and undefined; item ids as their "/"-separated segments;  *)
(* texts (names, feedback) as sequences of words, so that String.includes  *)
(* is the search for a contiguous run of words.                            *)
(***************************************************************************)
Null == [null |-> TRUE]
Undefined == [undefined |-> TRUE]

idA == <<"32", "11", "A">>
idB == <<"32", "11", "B">>
idC == <<"32", "12", "C">>

Max(a, b) == IF a >= b THEN a ELSE b
Min(a, b) == IF a <= b THEN a ELSE b

RECURSIVE SumOver(_, _)
\* items.reduce((sum, item) => sum + f(item), 0), f given as the field values
SumOver(vals, i) == IF i > Len(vals) THEN 0 ELSE vals[i] + SumOver(vals, i + 1)

SumQuantity(items) == SumOver([i \in 1..Len(items) |-> items[i].quantity], 1)
SumTotalCost(items) == SumOver([i \in 1..Len(items) |-> items[i].totalCost], 1)

\* String.prototype.toLowerCase, word by word
LowerWord(w) ==
  CASE w = "Product" -> "product"
    [] w = "Widget" -> "widget"
    [] w = "Very" -> "very"
    [] w = "Budget" -> "budget"
    [] w = "A" -> "a"
    [] w = "B" -> "b"
    [] w = "C" -> "c"
    [] OTHER -> w
toLowerCase(text) == [i \in 1..Len(text) |-> LowerWord(text[i])]

\* String.prototype.includes
includes(text, pat) ==
  \E k \in 0..(Len(text) - Len(pat)) : \A i \in 1..Len(pat) : text[k + i] = pat[i]

\* item.itemId.split('/').pop() || item.itemId, as a key of the cost table
ProductId(itemId) ==
  IF itemId[Len(itemId)] # "" THEN <<itemId[Len(itemId)]>> ELSE itemId

(***************************************************************************)
(* The tables.  getCurrentBudget reads the last row; the capacity is that  *)
(* of the newest row of the warehouse (Array.sort is stable, so among the  *)
(* rows of the greatest date the first one wins).                          *)
(***************************************************************************)
getCurrentBudget(rows) ==
  IF Len(rows) = 0 THEN FallbackBudget ELSE rows[Len(rows)].budget

RECURSIVE FilterWarehouse(_, _, _)
\* rows.filter(c => c.warehouse === warehouseId), from row i on
FilterWarehouse(rows, warehouseId, i) ==
  IF i > Len(rows) THEN << >>
  ELSE IF rows[i].warehouse = warehouseId
       THEN <<rows[i]>> \o FilterWarehouse(rows, warehouseId, i + 1)
       ELSE FilterWarehouse(rows, warehouseId, i + 1)

\* rows.sort((a, b) => date(b) - date(a))[0]
NewestFirst(rows) ==
  LET best == CHOOSE i \in 1..Len(rows) :
                \A j \in 1..Len(rows) :
                   \/ rows[j].date < rows[i].date
                   \/ rows[j].date = rows[i].date /\ j >= i
  IN  rows[best]

getCurrentWarehouseCapacity(rows, warehouseId) ==
  IF Len(rows) = 0 THEN FallbackCapacity
  ELSE LET mine == FilterWarehouse(rows, warehouseId, 1)
       IN  IF Len(mine) = 0 THEN FallbackCapacity ELSE NewestFirst(mine).capacity

(***************************************************************************)
(* Step 1 of runWorkflow: the newest record of every item of the forecast  *)
(* table, in the order in which the item ids first appear in the table,    *)
(* restricted to the requested ids.                                        *)
(***************************************************************************)
SeqIncludes(s, x) == \E i \in 1..Len(s) : s[i] = x

\* the first record of the group of rows[i].item_id sorted by date, newest first
NewestOfItem(rows, i) ==
  LET best == CHOOSE k \in 1..Len(rows) :
                /\ rows[k].item_id = rows[i].item_id
                /\ \A j \in 1..Len(rows) :
                      rows[j].item_id = rows[i].item_id =>
                        \/ rows[j].date < rows[k].date
                        \/ rows[j].date = rows[k].date /\ j >= k
  IN  rows[best]

RECURSIVE NewestPredictionsByRequest(_, _, _)
\* a variant of NewestPredictions that takes the newest record of every
\* element of itemIds, in the order of itemIds
NewestPredictionsByRequest(rows, itemIds, i) ==
  IF i > Len(itemIds) THEN << >>
  ELSE IF \E j \in 1..Len(rows) : rows[j].item_id = itemIds[i]
       THEN <<NewestOfItem(rows, CHOOSE j \in 1..Len(rows) : rows[j].item_id = itemIds[i])>>
              \o NewestPredictionsByRequest(rows, itemIds, i + 1)
       ELSE NewestPredictionsByRequest(rows, itemIds, i + 1)

RECURSIVE NewestPredictions(_, _, _)
NewestPredictions(rows, itemIds, i) ==
  IF i > Len(rows) THEN << >>
  ELSE IF /\ \A j \in 1..(i - 1) : rows[j].item_id # rows[i].item_id
          /\ SeqIncludes(itemIds, rows[i].item_id)
       THEN <<NewestOfItem(rows, i)>> \o NewestPredictions(rows, itemIds, i + 1)
       ELSE NewestPredictions(rows, itemIds, i + 1)

(***************************************************************************)
(* calculateConfidence.  A confidence is the ratio num / den, or NaN.      *)
(***************************************************************************)
NaN == [kind |-> "nan"]
Rat(n, d) == [kind |-> "num", num |-> n, den |-> d]

\* Math.max(0.1, Math.min(0.95, x)) for x = n / d, d > 0
Clamp(n, d) ==
  IF 100 * n > 95 * d THEN Rat(95, 100)
  ELSE IF 10 * n < d THEN Rat(1, 10)
  ELSE Rat(n, d)

calculateConfidence(pred) ==
  IF pred.confidence_score # Undefined
  THEN IF pred.confidence_score.kind = "nan" THEN NaN
       ELSE Clamp(pred.confidence_score.num, pred.confidence_score.den)
  ELSE LET range == pred.hi - pred.lo
           m == Max(pred.yhat, 1)
       IN  Clamp(m - range, m)

(***************************************************************************)
(* analyzeDemandRefined: one DemandResult per prediction.  names is the    *)
(* item id -> product name map built from the business table; aiOk[i]      *)
(* tells whether the reasoning collaborator answered for prediction i.     *)
(***************************************************************************)
\* a variant of DemandResultOf whose target follows the collaborator's answer
DemandResultOfAdvised(pred, names, hasModel, ok) ==
  [itemId |-> pred.item_id,
   itemName |-> IF pred.item_id \in DOMAIN names THEN names[pred.item_id] ELSE pred.name,
   targetQuantity |-> IF hasModel /\ ok THEN pred.yhat + 1 ELSE pred.yhat,
   confidence |-> calculateConfidence(pred),
   reasoning |-> IF hasModel /\ ok THEN "ai" ELSE "local"]

DemandResultOf(pred, names, hasModel, ok) ==
  [itemId |-> pred.item_id,
   itemName |-> IF pred.item_id \in DOMAIN names THEN names[pred.item_id] ELSE pred.name,
   targetQuantity |-> pred.yhat,
   confidence |-> calculateConfidence(pred),
   reasoning |-> IF hasModel /\ ok THEN "ai" ELSE "local"]

analyzeDemandResults(predictions, names, hasModel, aiOk) ==
  [i \in 1..Len(predictions) |-> DemandResultOf(predictions[i], names, hasModel, aiOk[i])]

(***************************************************************************)
(* generatePurchasePlanRefined: the newsvendor quantity of every demand    *)
(* with a cost entry, admitted by the greedy budget ledger.                *)
(***************************************************************************)
\* demandResults.find(d => d.itemId === itemId)
FindDemand(demandResults, itemId) ==
  demandResults[CHOOSE i \in 1..Len(demandResults) :
                  /\ demandResults[i].itemId = itemId
                  /\ \A j \in 1..(i - 1) : demandResults[j].itemId # itemId]

NewsvendorOf(demandResults, demand, skuCost) ==
  LET originalPred == FindDemand(demandResults, demand.itemId)
  IN  calculateNewsvendorQuantity(demand.targetQuantity,
                                  8 * originalPred.targetQuantity,
                                  12 * originalPred.targetQuantity,
                                  skuCost.holdingCost, skuCost.shortageCost)

\* a variant of Admits that tests each item against the whole budget
AdmitsAlone(totalCost, q, purchasingPrice, weeklyBudget) ==
  /\ q.kind = "fin"
  /\ q.val * purchasingPrice <= weeklyBudget

\* a variant of Admits that tests the ledger before the item is added to it
AdmitsBefore(totalCost, q, purchasingPrice, weeklyBudget) ==
  /\ q.kind = "fin"
  /\ totalCost <= weeklyBudget

\* totalCost + itemCost <= weeklyBudget; a NaN or infinite itemCost never is
Admits(totalCost, q, purchasingPrice, weeklyBudget) ==
  /\ q.kind = "fin"
  /\ totalCost + q.val * purchasingPrice <= weeklyBudget

PlanItemOf(demand, quantity, purchasingPrice) ==
  [itemId |-> demand.itemId,
   itemName |-> demand.itemName,
   quantity |-> quantity,
   unitCost |-> purchasingPrice,
   totalCost |-> quantity * purchasingPrice]

\* items.push(...); totalCost += itemCost; totalUnits += newsvendorQuantity
Admit(acc, item) ==
  [items |-> Append(acc.items, item),
   totalCost |-> acc.totalCost + item.totalCost,
   totalUnits |-> acc.totalUnits + item.quantity]

\* the budget test of one demand with newsvendor quantity q
BudgetStep(acc, demand, q, purchasingPrice, weeklyBudget) ==
  IF Admits(acc.totalCost, q, purchasingPrice, weeklyBudget)
  THEN Admit(acc, PlanItemOf(demand, q.val, purchasingPrice))
  ELSE acc

\* a variant of LoopBody that plans a demand without a cost entry at the markup
LoopBodyDefaulting(demandResults, sku, weeklyBudget, demand, acc) ==
  IF ProductId(demand.itemId) \notin DOMAIN sku
  THEN [items |-> Append(acc.items,
                         PlanItemOf(demand, demand.targetQuantity, PriceMarkup)),
        totalCost |-> acc.totalCost + demand.targetQuantity * PriceMarkup,
        totalUnits |-> acc.totalUnits + demand.targetQuantity]
  ELSE BudgetStep(acc, demand,
                  NewsvendorOf(demandResults, demand, sku[ProductId(demand.itemId)]),
                  sku[ProductId(demand.itemId)].shortageCost + PriceMarkup,
                  weeklyBudget)

\* one turn of the loop: a demand without a cost entry is skipped
LoopBody(demandResults, sku, weeklyBudget, demand, acc) ==
  IF ProductId(demand.itemId) \notin DOMAIN sku THEN acc
  ELSE BudgetStep(acc, demand,
                  NewsvendorOf(demandResults, demand, sku[ProductId(demand.itemId)]),
                  sku[ProductId(demand.itemId)].shortageCost + PriceMarkup,
                  weeklyBudget)

RECURSIVE BudgetLoop(_, _, _, _, _)
\* the loop from demand i on; acc is the ledger so far
BudgetLoop(demandResults, sku, weeklyBudget, i, acc) ==
  IF i > Len(demandResults) THEN acc
  ELSE BudgetLoop(demandResults, sku, weeklyBudget, i + 1,
                  LoopBody(demandResults, sku, weeklyBudget, demandResults[i], acc))

EmptyLedger == [items |-> << >>, totalCost |-> 0, totalUnits |-> 0]

generatePurchasePlanRefined(demandResults, sku, weeklyBudget) ==
  LET ledger == BudgetLoop(demandResults, sku, weeklyBudget, 1, EmptyLedger)
  IN  [items |-> ledger.items,
       totalCost |-> ledger.totalCost,
       totalUnits |-> ledger.totalUnits,
       reasoning |-> [kind |-> "newsvendor", weeklyBudget |-> weeklyBudget]]

(***************************************************************************)
(* applyWarehouseConstraints: the capacity clamp.                          *)
(***************************************************************************)
\* a variant of ConstrainedItem that leaves the item's totalCost as it was
ConstrainedItemStale(item, warehouseCapacity) ==
  [item EXCEPT !.quantity = Min(item.quantity, warehouseCapacity)]

ConstrainedItem(item, warehouseCapacity) ==
  LET constrainedQuantity == Min(item.quantity, warehouseCapacity)
  IN  [item EXCEPT !.quantity = constrainedQuantity,
                   !.totalCost = constrainedQuantity * item.unitCost]

RECURSIVE ConstrainLoop(_, _, _, _)
ConstrainLoop(items, warehouseCapacity, i, acc) ==
  IF i > Len(items) THEN acc
  ELSE IF Min(items[i].quantity, warehouseCapacity) > 0
       THEN ConstrainLoop(items, warehouseCapacity, i + 1,
                          Admit(acc, ConstrainedItem(items[i], warehouseCapacity)))
       ELSE ConstrainLoop(items, warehouseCapacity, i + 1, acc)

\* a variant of applyWarehouseConstraints that clamps every item and removes none
applyWarehouseConstraintsKeeping(plan, warehouseCapacity) ==
  LET ledger == ConstrainLoop(plan.items, warehouseCapacity, 1, EmptyLedger)
  IN  [items |-> [i \in 1..Len(plan.items) |->
                    ConstrainedItem(plan.items[i], warehouseCapacity)],
       totalCost |-> ledger.totalCost,
       totalUnits |-> ledger.totalUnits,
       reasoning |-> [kind |-> "warehouse", warehouseCapacity |-> warehouseCapacity]]

applyWarehouseConstraints(plan, warehouseCapacity) ==
  LET ledger == ConstrainLoop(plan.items, warehouseCapacity, 1, EmptyLedger)
  IN  [items |-> ledger.items,
       totalCost |-> ledger.totalCost,
       totalUnits |-> ledger.totalUnits,
       reasoning |-> [kind |-> "warehouse", warehouseCapacity |-> warehouseCapacity]]

(***************************************************************************)
(* checkHumanInputRequired: the gate.                                      *)
(***************************************************************************)
\* a variant of ItemNeedsReview that looks the cost entry up by the whole item id
ItemNeedsReviewByItemId(item, sku) ==
  /\ item.itemId \in DOMAIN sku
  /\ item.quantity * sku[item.itemId].holdingCost
       > item.quantity * sku[item.itemId].shortageCost

ItemNeedsReview(item, sku) ==
  LET productId == ProductId(item.itemId)
  IN  /\ productId \in DOMAIN sku
      /\ item.quantity * sku[productId].holdingCost
           > item.quantity * sku[productId].shortageCost

checkHumanInputRequired(plan, sku) ==
  \E i \in 1..Len(plan.items) : ItemNeedsReview(plan.items[i], sku)

(***************************************************************************)
(* modifyPlanBasedOnHumanInput: the rules of the feedback reconciliation.  *)
(* A factor is given in percent.  Math.floor(quantity * 0.85) is computed  *)
(* on the double nearest 0.85: FloorOfProduct gives the floor of that      *)
(* product, which is one below (quantity * pct) \div 100 for some          *)
(* quantities whose exact product is an integer (90 * 0.7 gives 62).       *)
(***************************************************************************)
RECURSIVE JoinSlash(_, _)
\* the id as text: its segments with "/" between them
JoinSlash(id, i) ==
  IF i > Len(id) THEN << >>
  ELSE IF i = Len(id) THEN <<id[i]>>
  ELSE <<id[i], "/">> \o JoinSlash(id, i + 1)

HasBudgetConcern(feedback) ==
  \/ includes(feedback, <<"budget">>)
  \/ includes(feedback, <<"cost">>)
  \/ includes(feedback, <<"expensive">>)

HasRiskConcern(feedback) ==
  \/ includes(feedback, <<"risk">>)
  \/ includes(feedback, <<"conservative">>)
  \/ includes(feedback, <<"safe">>)

BudgetFactor(feedback) == IF includes(feedback, <<"very">>) THEN 70 ELSE 85
RiskFactor(feedback) == IF includes(feedback, <<"very">>) THEN 75 ELSE 90
MentionFactor == 70
FallbackFactor == 95

IsMentioned(item, feedback) ==
  \/ includes(feedback, toLowerCase(item.itemName))
  \/ includes(feedback, toLowerCase(JoinSlash(item.itemId, 1)))

\* The factors are doubles.  The double nearest to pct/100 lies below it by
\* Deficit(pct)/10 units of 2^-53 (0.7 and 0.95: 0.4 units, 0.85: 0.2 units);
\* 0.75 is exact and the double of 0.9 lies above it.
Deficit(pct) == IF pct \in {70, 95} THEN 4 ELSE IF pct = 85 THEN 2 ELSE 0

RECURSIVE Pow2Below(_, _)
\* the power of two 2^e with 2^e < n <= 2^(e+1), for n >= 2, from p = 2^0 on
Pow2Below(n, p) == IF 2 * p < n THEN Pow2Below(n, 2 * p) ELSE p

\* Math.floor(quantity * factor).  When quantity * pct / 100 is a whole number
\* n, the exact product with the double lies below n by quantity * Deficit / 10
\* units of 2^-53; the doubles below n are 2^e units of 2^-52 apart, and the
\* product rounds back to n unless it is nearer to the double before n: then
\* the floor is n - 1 (quantity 90, factor 0.7: 62).  In all other cases the
\* floor is that of the exact product.
FloorOfProduct(quantity, pct) ==
  LET n == (quantity * pct) \div 100
  IN  IF /\ (quantity * pct) % 100 = 0
         /\ n >= 2
         /\ quantity * Deficit(pct) > 10 * Pow2Below(n, 1)
      THEN n - 1
      ELSE n

\* newQuantity = Math.max(1, Math.floor(item.quantity * factor))
NewQuantity(quantity, pct) == Max(1, FloorOfProduct(quantity, pct))

\* a variant of ReduceItem that spreads the item's old totalCost over the new quantity
ReduceItemRepriced(item, pct) ==
  LET newQuantity == NewQuantity(item.quantity, pct)
  IN  IF newQuantity # item.quantity
      THEN [item EXCEPT !.quantity = newQuantity,
                        !.unitCost = item.totalCost \div newQuantity]
      ELSE item

\* a variant of ReduceItem that leaves the item's totalCost as it was
ReduceItemStale(item, pct) ==
  [item EXCEPT !.quantity = NewQuantity(item.quantity, pct)]

ReduceItem(item, pct) ==
  LET newQuantity == NewQuantity(item.quantity, pct)
  IN  IF newQuantity # item.quantity
      THEN [item EXCEPT !.quantity = newQuantity,
                        !.totalCost = newQuantity * item.unitCost]
      ELSE item

ReduceAll(items, pct) == [i \in 1..Len(items) |-> ReduceItem(items[i], pct)]

ReduceMentioned(items, feedback) ==
  [i \in 1..Len(items) |->
     IF IsMentioned(items[i], feedback) THEN ReduceItem(items[i], MentionFactor)
     ELSE items[i]]

QuantityChanged(before, after) ==
  \E i \in 1..Len(before) : after[i].quantity # before[i].quantity

\* a variant of RecalculateTotals that keeps the stored totals
KeepTotals(plan) == plan

\* the two reduce calls that recalculate the totals
RecalculateTotals(plan) ==
  [plan EXCEPT !.totalUnits = SumQuantity(plan.items),
               !.totalCost = SumTotalCost(plan.items)]

\* one rule: the items it leaves, the modified flag, and, when modified is set,
\* the recalculated totals and the rule's chat message
RuleStep(m, newItems, agent, text) ==
  LET modified == m.modified \/ QuantityChanged(m.plan.items, newItems)
      plan == [m.plan EXCEPT !.items = newItems]
  IN  IF modified
      THEN LET recalculated == RecalculateTotals(plan)
           IN  [plan |-> recalculated, modified |-> TRUE,
                chat |-> Append(m.chat, [agent |-> agent, message |-> text,
                                         total |-> recalculated.totalCost,
                                         isThinking |-> FALSE])]
      ELSE [plan |-> plan, modified |-> FALSE, chat |-> m.chat]

\* a variant of BudgetRule that leaves alone a plan that was modified before
BudgetRuleOnce(m, feedback) ==
  IF HasBudgetConcern(feedback) /\ m.plan.reasoning.kind # "modified"
  THEN RuleStep(m, ReduceAll(m.plan.items, BudgetFactor(feedback)),
                "purchasing", "Reduced quantities to address budget concerns")
  ELSE m

BudgetRule(m, feedback) ==
  IF HasBudgetConcern(feedback)
  THEN RuleStep(m, ReduceAll(m.plan.items, BudgetFactor(feedback)),
                "purchasing", "Reduced quantities to address budget concerns")
  ELSE m

RiskRule(m, feedback) ==
  IF HasRiskConcern(feedback)
  THEN RuleStep(m, ReduceAll(m.plan.items, RiskFactor(feedback)),
                "risk", "Adopted more conservative approach")
  ELSE m

MentionRule(m, feedback) ==
  IF \E i \in 1..Len(m.plan.items) : IsMentioned(m.plan.items[i], feedback)
  THEN RuleStep(m, ReduceMentioned(m.plan.items, feedback),
                "demand", "Adjusted quantities for mentioned items")
  ELSE m

\* a variant of FallbackRule that applies the uniform factor after every feedback
FallbackRuleAlways(m) ==
  RuleStep(m, ReduceAll(m.plan.items, FallbackFactor),
           "purchasing", "Made small adjustments based on your feedback")

\* a variant of FallbackRule that never adjusts the plan
FallbackRuleNever(m) == m

FallbackRule(m) ==
  IF ~m.modified
  THEN RuleStep(m, ReduceAll(m.plan.items, FallbackFactor),
                "purchasing", "Made small adjustments based on your feedback")
  ELSE m

\* the reasoning of a modified plan, or the chat message of an unmodified one
Summarize(m, originalPlan) ==
  IF m.modified
  THEN [m EXCEPT !.plan.reasoning =
          [kind |-> "modified",
           originalCost |-> originalPlan.totalCost,
           originalUnits |-> originalPlan.totalUnits,
           newCost |-> m.plan.totalCost,
           newUnits |-> m.plan.totalUnits]]
  ELSE [m EXCEPT !.chat = Append(@, [agent |-> "purchasing",
                                     message |-> "We'll keep the current plan",
                                     isThinking |-> FALSE])]

\* the plan and the chat messages after the rules, for a plan that is not null
modifyPlan(plan, feedbackText) ==
  LET feedback == toLowerCase(feedbackText)
      m0 == [plan |-> plan, modified |-> FALSE, chat |-> << >>]
  IN  Summarize(FallbackRule(MentionRule(RiskRule(BudgetRule(m0, feedback), feedback),
                                         feedback)),
                plan)

(***************************************************************************)
(* The data the service reads.  Tables are given as the rows their parsers *)
(* return.  An item id is "32/11/A"; the cost table is keyed by product.   *)
(***************************************************************************)
YhatSet == {0, 2, MaxYhat}

CostNormal == [holdingCost |-> 1, shortageCost |-> 5]
\* holding above shortage: the entry that makes the gate ask for review
CostReview == [holdingCost |-> 3, shortageCost |-> 2]
\* critical ratio (p - c) / p below 0: the quantile is -Infinity
CostDegenerate == [holdingCost |-> 15, shortageCost |-> 3]
\* critical ratio 1: the quantile is +Infinity
CostFree == [holdingCost |-> 0, shortageCost |-> 5]

SkuTable(costA, costB) ==
  [k \in {<<"A">>, <<"B">>} |-> IF k = <<"A">> THEN costA ELSE costB]

NoTable == [k \in {} |-> CostNormal]

\* the fourth table has no entry for B
SkuFiles ==
  {SkuTable(CostNormal, CostNormal), SkuTable(CostReview, CostNormal),
   SkuTable(CostNormal, CostReview), [k \in {<<"A">>} |-> CostDegenerate],
   SkuTable(CostFree, CostNormal)}

BudgetRow(date, budget) == [date |-> date, budget |-> budget]

\* the rows are not in date order: the last row is the older one
BudgetFiles ==
  {<<BudgetRow(2, MaxBudget \div 2), BudgetRow(1, MaxBudget)>>}

WarehouseRow(date, capacity, warehouse) ==
  [date |-> date, capacity |-> capacity, warehouse |-> warehouse]

\* the newest row of the warehouse is neither the first nor the last row
WarehouseFiles ==
  {<<WarehouseRow(1, 0, WarehouseId), WarehouseRow(3, MaxCapacity, WarehouseId),
     WarehouseRow(2, 1, WarehouseId), WarehouseRow(4, 0, WarehouseId + 1)>>}

\* parseCSV: one record per line; name is "Product <product>"
ForecastRow(id, date, yhat, score) ==
  [item_id |-> id, date |-> date, yhat |-> yhat,
   lo |-> Max(yhat - 1, 0), hi |-> yhat + 1,
   confidence_score |-> score, name |-> <<"Product", id[Len(id)]>>]

\* an older record of A comes first; B comes after A.  parseFloat gives every
\* record a confidence score: a number, or NaN when the column is missing
ForecastFiles ==
  {<<ForecastRow(idA, 1, MaxYhat, NaN), ForecastRow(idA, 2, yhat, Rat(99, 100)),
     ForecastRow(idB, 1, 2, Rat(1, 20))>> : yhat \in YhatSet}

ItemIdChoices == {<<idB, idA>>, <<idA, idC>>}

Policies == {[conservatismLevel |-> "medium", maxCost |-> FallbackBudget]}

\* the item id -> product name map of the business table: it names A only
BusinessNames == {[k \in {idA} |-> <<"Widget", "A">>]}

Feedbacks ==
  {<<"too", "expensive">>, <<"Very", "expensive", "and", "a", "risk">>,
   <<"less", "widget", "a">>, <<"fine">>}

HumanInputs == {[feedback |-> f, adjustments |-> [riskLevel |-> "medium"]] : f \in Feedbacks}

(***************************************************************************)
(* The state.  model, budgetData, skuCostData and warehouseConstraints are *)
(* the fields of the service and loadPc the position of the table load the *)
(* constructor starts; state is the WorkflowState object, runPc and hiPc   *)
(* the positions of runWorkflow and processHumanInput in their bodies,     *)
(* itemIds and local what runWorkflow holds in its arguments and locals.   *)
(* emitted is the sequence of snapshots the latest step of an operation    *)
(* handed to onUpdate, result how the latest operation ended.  waitCount   *)
(* and frozen are history variables: waitCount counts the steps that take  *)
(* status to waiting_for_input; frozen holds the plan of the state that    *)
(* runWorkflow returned with that status, until the reconciliation of a    *)
(* human input starts.  panel is the state of the SimpleWorkflowPanel      *)
(* component and of the calls it has in flight; history holds the forecast *)
(* table served to the runs of a session and what the run before the       *)
(* current one returned.  Both stay at their initial values except in the  *)
(* specifications SpecPanel and SpecPolicy.                                *)
(***************************************************************************)
VARIABLES model, budgetData, skuCostData, warehouseConstraints, loadPc,
          state, runPc, itemIds, local, hiPc, humanCalls, emitted, result,
          waitCount, frozen, panel, history

vars == <<model, budgetData, skuCostData, warehouseConstraints, loadPc,
          state, runPc, itemIds, local, hiPc, humanCalls, emitted, result,
          waitCount, frozen, panel, history>>

observers == <<panel, history>>

service == <<model, budgetData, skuCostData, warehouseConstraints, loadPc>>
tables == <<budgetData, skuCostData, warehouseConstraints, loadPc>>
ghosts == <<waitCount, frozen>>

\* before runWorkflow creates the state object there is none: status ready
ReadyState ==
  [status |-> "ready", demandResults |-> << >>, purchasePlan |-> Null,
   messages |-> << >>, agentChat |-> << >>, awaitingHumanInput |-> FALSE,
   humanInput |-> Undefined, showResults |-> FALSE]

NewState == [ReadyState EXCEPT !.status = "running"]

\* waitCount counts the steps that take status to waiting_for_input
CountWaiting ==
  waitCount' = waitCount + (IF /\ state.status # "waiting_for_input"
                               /\ state'.status = "waiting_for_input"
                            THEN 1 ELSE 0)

\* no panel is mounted and no session is followed
NoPanel == [mounted |-> FALSE]
NoHistory == [followed |-> FALSE]
Unobserved == panel = NoPanel /\ history = NoHistory

NoResult == [op |-> "none", how |-> "none"]
Returned(op) == [op |-> op, how |-> "returned"]
Rejected(op) == [op |-> op, how |-> "rejected"]

Init ==
  /\ model \in BOOLEAN
  /\ budgetData = << >>
  /\ skuCostData = NoTable
  /\ warehouseConstraints = << >>
  /\ loadPc = "budget"
  /\ state = ReadyState
  /\ runPc = "idle"
  /\ itemIds = << >>
  /\ local = Null
  /\ hiPc = "idle"
  /\ humanCalls = 0
  /\ emitted = << >>
  /\ result = NoResult
  /\ waitCount = 0
  /\ frozen = << >>
  /\ Unobserved

(***************************************************************************)
(* loadBudgetAndCostData: three loads in sequence under one try; a load    *)
(* that rejects ends the sequence and leaves the later tables as they are. *)
(***************************************************************************)
workflow == <<state, runPc, itemIds, local, hiPc, humanCalls, emitted, result,
              waitCount, frozen>>

LoadBudget ==
  /\ loadPc = "budget"
  /\ \/ \E file \in BudgetFiles :
          /\ budgetData' = file
          /\ loadPc' = "sku"
     \/ /\ loadPc' = "failed"
        /\ UNCHANGED budgetData
  /\ UNCHANGED <<model, skuCostData, warehouseConstraints, workflow, observers>>

LoadSku ==
  /\ loadPc = "sku"
  /\ \/ \E file \in SkuFiles :
          /\ skuCostData' = file
          /\ loadPc' = "warehouse"
     \/ /\ loadPc' = "failed"
        /\ UNCHANGED skuCostData
  /\ UNCHANGED <<model, budgetData, warehouseConstraints, workflow, observers>>

LoadWarehouse ==
  /\ loadPc = "warehouse"
  /\ \/ \E file \in WarehouseFiles :
          /\ warehouseConstraints' = file
          /\ loadPc' = "done"
     \/ /\ loadPc' = "failed"
        /\ UNCHANGED warehouseConstraints
  /\ UNCHANGED <<model, budgetData, skuCostData, workflow, observers>>

(***************************************************************************)
(* Chat messages and the reasoning collaborator.  A message the            *)
(* collaborator wrote has the text "ai".  A discussion under try adds its  *)
(* messages one by one, emitting a snapshot after each; when a call of the *)
(* collaborator fails or onUpdate throws after the first k messages, the   *)
(* catch adds the fallback messages.                                       *)
(***************************************************************************)
Chat(agent, message, isThinking) ==
  [agent |-> agent, message |-> message, isThinking |-> isThinking]

addChatMessage(s, msg) == [s EXCEPT !.agentChat = Append(@, msg)]

addChatMessages(s, msgs) == [s EXCEPT !.agentChat = @ \o msgs]

\* the snapshots emitted after each of the first k messages
Snapshots(s, msgs, k) ==
  [j \in 1..k |-> addChatMessages(s, SubSeq(msgs, 1, j))]

\* where a discussion of n messages is taken to fail: as early as it can (after
\* first messages) or as late as it can (after the last one)
FailurePoints(first, n) == {first, n}

\* a variant of TryOutcomes whose failed discussion is recorded as an error
TryOutcomesRaising(s, msgs, fallbacks, first) ==
  {[state |-> [addChatMessages(s, SubSeq(msgs, 1, k) \o fallbacks)
                 EXCEPT !.messages = Append(@, [error |-> "collaborator"])],
    emitted |-> Snapshots(s, msgs, k)] : k \in FailurePoints(first, Len(msgs))}
  \cup {[state |-> addChatMessages(s, msgs),
         emitted |-> Snapshots(s, msgs, Len(msgs))]}

\* the outcomes of a discussion: it fails after k messages, or not at all
TryOutcomes(s, msgs, fallbacks, first) ==
  {[state |-> addChatMessages(s, SubSeq(msgs, 1, k) \o fallbacks),
    emitted |-> Snapshots(s, msgs, k)] : k \in FailurePoints(first, Len(msgs))}
  \cup {[state |-> addChatMessages(s, msgs),
         emitted |-> Snapshots(s, msgs, Len(msgs))]}

startAgentConversation(s, policy) ==
  addChatMessage(s, [agent |-> "demand", message |-> "Working with",
                     conservatismLevel |-> policy.conservatismLevel,
                     maxCost |-> policy.maxCost, isThinking |-> FALSE])

finalAgentConsensusRefined(s, hasModel) ==
  LET fallback == Chat("risk", "Final supply planning output ready.", FALSE)
  IN  IF ~hasModel
      THEN {[state |-> addChatMessage(s, fallback), emitted |-> << >>]}
      ELSE TryOutcomes(s,
                       <<Chat("demand", "Finalizing demand analysis...", TRUE),
                         Chat("purchasing", "Completing newsvendor optimization...", TRUE),
                         Chat("risk", "ai", FALSE),
                         Chat("demand", "Supply planning output finalized.", FALSE)>>,
                       <<fallback>>, 1)

discussHumanInput(s, hasModel) ==
  LET fallbacks == <<Chat("risk", "Thank you for the feedback.", FALSE),
                     Chat("purchasing", "Adjusting plan based on human input.", FALSE),
                     Chat("demand", "Updated targets considering your feedback.", FALSE)>>
  IN  IF ~hasModel
      THEN {[state |-> addChatMessages(s, fallbacks), emitted |-> << >>]}
      ELSE TryOutcomes(s,
                       <<Chat("risk", "ai", FALSE), Chat("purchasing", "ai", FALSE),
                         Chat("demand", "ai", FALSE)>>,
                       fallbacks, 0)

\* with a null plan the prompt's plan.totalCost throws before the first message
finalAgentConsensusWithHumanInput(s, hasModel) ==
  LET fallback == Chat("risk", "Final consensus: Plan approved incorporating human feedback.", FALSE)
      msgs == <<Chat("demand", "Incorporating human feedback into final decision...", TRUE),
                Chat("purchasing", "ai", TRUE),
                Chat("risk", "ai", FALSE),
                Chat("demand", "Final plan approved with human input incorporated.", FALSE)>>
  IN  IF ~hasModel
      THEN {[state |-> addChatMessage(s, fallback), emitted |-> << >>]}
      ELSE IF s.purchasePlan = Null
           THEN {[state |-> addChatMessage(s, fallback), emitted |-> << >>]}
           ELSE TryOutcomes(s, msgs, <<fallback>>, 1)

(***************************************************************************)
(* runWorkflow.  Each action is the code between two awaits.               *)
(***************************************************************************)
\* the catch block: the diagnostic, status complete, and one more snapshot
Caught(s, cause) ==
  [s EXCEPT !.messages = Append(@, [error |-> cause]), !.status = "complete"]

\* a throw inside the try with the state at s, after the snapshots snaps; the
\* update of the catch block may throw again, and then runWorkflow rejects
RunFails(s, cause, snaps) ==
  /\ state' = Caught(s, cause)
  /\ emitted' = Append(snaps, Caught(s, cause))
  /\ runPc' = "done"
  /\ local' = Null
  /\ \E again \in BOOLEAN :
       result' = IF again THEN Rejected("runWorkflow") ELSE Returned("runWorkflow")
  /\ CountWaiting
  /\ UNCHANGED <<service, observers, itemIds, hiPc, humanCalls, frozen>>

\* the step ends at an await with the state at s and pc the next position
RunContinues(s, snaps, pc, loc) ==
  /\ state' = s
  /\ emitted' = snaps
  /\ runPc' = pc
  /\ local' = loc
  /\ CountWaiting
  /\ UNCHANGED <<service, observers, itemIds, hiPc, humanCalls, result, frozen>>

\* updateState() with the state at s: onUpdate throws, or it does not
RunUpdates(s, pc, loc) ==
  \/ RunFails(s, "onUpdate", <<s>>)
  \/ RunContinues(s, <<s>>, pc, loc)

RunStart ==
  /\ runPc = "idle"
  /\ \E ids \in ItemIdChoices, policy \in Policies :
       /\ itemIds' = ids
       /\ state' = startAgentConversation(NewState, policy)
  /\ runPc' = "started"
  /\ emitted' = << >>
  /\ CountWaiting
  /\ UNCHANGED <<service, observers, local, hiPc, humanCalls, result, frozen>>

\* updateState() after step 0, then the call of loadCSVFile
RunEmitStart ==
  /\ runPc = "started"
  /\ RunUpdates(state, "loadCsv", local)

\* the forecast table arrives, or its load rejects
RunLoadCsv ==
  /\ runPc = "loadCsv"
  /\ \/ RunFails(state, "load", << >>)
     \/ \E file \in ForecastFiles :
          RunContinues(state, << >>, "demand", NewestPredictions(file, itemIds, 1))

\* whether the collaborator answers for each prediction: for all or for none
AiAnswers(n) ==
  IF model THEN {[i \in 1..n |-> ok] : ok \in BOOLEAN} ELSE {[i \in 1..n |-> FALSE]}

\* the end of analyzeDemandRefined: its chat message and updateState()
DemandStage(s, results) ==
  RunUpdates(addChatMessage(s, [agent |-> "demand", message |-> "Analyzed items",
                                count |-> Len(results), isThinking |-> FALSE]),
             "plan", results)

RunDemand ==
  /\ runPc = "demand"
  /\ \E names \in BusinessNames, aiOk \in AiAnswers(Len(local)) :
       DemandStage(state, analyzeDemandResults(local, names, model, aiOk))

\* the end of generatePurchasePlanRefined: its chat message and updateState()
PlanStage(s, plan) ==
  RunUpdates(addChatMessage(s, [agent |-> "purchasing",
                                message |-> "Applied newsvendor policy",
                                totalCost |-> plan.totalCost,
                                totalUnits |-> plan.totalUnits,
                                weeklyBudget |-> plan.reasoning.weeklyBudget,
                                isThinking |-> FALSE]),
             "capacity", plan)

\* a variant of RunPlan in which the policy's maxCost caps the budget
RunPlanCapped ==
  /\ runPc = "plan"
  /\ PlanStage([state EXCEPT !.demandResults = local],
               generatePurchasePlanRefined(local, skuCostData,
                                           Min(getCurrentBudget(budgetData),
                                               state.agentChat[1].maxCost)))

\* state.demandResults is assigned, then step 2 runs up to its return
RunPlan ==
  /\ runPc = "plan"
  /\ PlanStage([state EXCEPT !.demandResults = local],
               generatePurchasePlanRefined(local, skuCostData,
                                           getCurrentBudget(budgetData)))

\* the end of applyWarehouseConstraints: its chat message and updateState()
CapacityStage(s, plan) ==
  RunUpdates(addChatMessage(s, [agent |-> "risk",
                                message |-> "Applied warehouse capacity constraints",
                                totalCost |-> plan.totalCost,
                                totalUnits |-> plan.totalUnits,
                                warehouseCapacity |-> plan.reasoning.warehouseCapacity,
                                isThinking |-> FALSE]),
             "gate", plan)

\* state.purchasePlan is assigned the budget plan, then step 3 runs up to its return
RunCapacity ==
  /\ runPc = "capacity"
  /\ CapacityStage([state EXCEPT !.purchasePlan = local],
                   applyWarehouseConstraints(
                     local, getCurrentWarehouseCapacity(warehouseConstraints, WarehouseId)))

\* step 4: the gate; then either the three assignments of step 5, or the
\* final consensus
RunGate ==
  /\ runPc = "gate"
  /\ LET s1 == [state EXCEPT !.purchasePlan = local]
     IN  IF checkHumanInputRequired(local, skuCostData)
         THEN /\ state' = [s1 EXCEPT !.status = "waiting_for_input",
                                     !.awaitingHumanInput = TRUE,
                                     !.showResults = FALSE]
              /\ runPc' = "emitWaiting"
              /\ emitted' = << >>
         ELSE /\ \E o \in finalAgentConsensusRefined(s1, model) :
                   /\ state' = o.state
                   /\ emitted' = o.emitted
              /\ runPc' = "finish"
  /\ local' = Null
  /\ CountWaiting
  /\ UNCHANGED <<service, observers, itemIds, hiPc, humanCalls, result, frozen>>

\* updateState() of step 5, and the return of the waiting state
RunEmitWaiting ==
  /\ runPc = "emitWaiting"
  /\ \/ RunFails(state, "onUpdate", <<state>>)
     \/ /\ runPc' = "done"
        /\ emitted' = <<state>>
        /\ result' = Returned("runWorkflow")
        /\ frozen' = <<state.purchasePlan>>
        /\ UNCHANGED <<service, observers, state, itemIds, local, hiPc, humanCalls, waitCount>>

RunFinish ==
  /\ runPc = "finish"
  /\ state' = [state EXCEPT !.showResults = TRUE, !.status = "complete"]
  /\ runPc' = "done"
  /\ emitted' = << >>
  /\ result' = Returned("runWorkflow")
  /\ CountWaiting
  /\ UNCHANGED <<service, observers, itemIds, local, hiPc, humanCalls, frozen>>

(***************************************************************************)
(* processHumanInput.  It has no try: a throwing onUpdate rejects the call *)
(* and leaves the state as it is at that point.                            *)
(***************************************************************************)
\* a variant of StartHumanInput that starts the transcript afresh
StartHumanInputFresh(s, humanInput) ==
  [s EXCEPT !.humanInput = humanInput,
            !.awaitingHumanInput = FALSE,
            !.status = "running",
            !.agentChat = <<Chat("human", humanInput.feedback, FALSE)>>]

\* a variant of StartHumanInput that waits for input again
StartHumanInputWaiting(s, humanInput) ==
  addChatMessage([s EXCEPT !.humanInput = humanInput,
                           !.awaitingHumanInput = TRUE,
                           !.status = "waiting_for_input"],
                 Chat("human", humanInput.feedback, FALSE))

\* a variant of StartHumanInput that starts from an empty plan
StartHumanInputReplanning(s, humanInput) ==
  addChatMessage([s EXCEPT !.humanInput = humanInput,
                           !.awaitingHumanInput = FALSE,
                           !.status = "running",
                           !.purchasePlan = Null],
                 Chat("human", humanInput.feedback, FALSE))

\* the first statements, up to the human chat message
StartHumanInput(s, humanInput) ==
  addChatMessage([s EXCEPT !.humanInput = humanInput,
                           !.awaitingHumanInput = FALSE,
                           !.status = "running"],
                 Chat("human", humanInput.feedback, FALSE))

HumanRejects(s, snaps) ==
  /\ state' = s
  /\ emitted' = snaps
  /\ hiPc' = "idle"
  /\ result' = Rejected("processHumanInput")

HumanStart ==
  /\ runPc = "done"
  /\ hiPc = "idle"
  /\ humanCalls < MaxHumanInputs
  /\ humanCalls' = humanCalls + 1
  /\ \E humanInput \in HumanInputs :
       LET s1 == StartHumanInput(state, humanInput)
       IN  \/ HumanRejects(s1, <<s1>>)
           \/ /\ state' = s1
              /\ emitted' = <<s1>>
              /\ hiPc' = "discuss"
              /\ UNCHANGED result
  /\ CountWaiting
  /\ UNCHANGED <<service, observers, runPc, itemIds, local, frozen>>

HumanDiscuss ==
  /\ hiPc = "discuss"
  /\ \E o \in discussHumanInput(state, model) :
       /\ state' = o.state
       /\ emitted' = o.emitted
  /\ hiPc' = "modify"
  /\ CountWaiting
  /\ UNCHANGED <<service, observers, runPc, itemIds, local, humanCalls, result, frozen>>

\* the plan and chat of the state after modifyPlanBasedOnHumanInput
modifyPlanBasedOnHumanInput(s) ==
  IF s.purchasePlan = Null THEN s
  ELSE LET m == modifyPlan(s.purchasePlan, s.humanInput.feedback)
       IN  addChatMessages([s EXCEPT !.purchasePlan = m.plan], m.chat)

\* updateState() after the discussion, then the reconciliation and its update
HumanModify ==
  /\ hiPc = "modify"
  /\ \/ /\ HumanRejects(state, <<state>>)
        /\ UNCHANGED frozen
     \/ LET s1 == modifyPlanBasedOnHumanInput(state)
            snaps == IF state.purchasePlan = Null THEN <<state>> ELSE <<state, s1>>
        IN  /\ frozen' = << >>
            /\ \/ /\ state.purchasePlan # Null
                  /\ HumanRejects(s1, snaps)
               \/ /\ state' = s1
                  /\ emitted' = snaps
                  /\ hiPc' = "consensus"
                  /\ UNCHANGED result
  /\ CountWaiting
  /\ UNCHANGED <<service, observers, runPc, itemIds, local, humanCalls>>

HumanConsensus ==
  /\ hiPc = "consensus"
  /\ \E o \in finalAgentConsensusWithHumanInput(state, model) :
       /\ state' = o.state
       /\ emitted' = o.emitted
  /\ hiPc' = "finish"
  /\ CountWaiting
  /\ UNCHANGED <<service, observers, runPc, itemIds, local, humanCalls, result, frozen>>

\* the last updateState(), then showResults and status complete
HumanFinish ==
  /\ hiPc = "finish"
  /\ \/ HumanRejects(state, <<state>>)
     \/ /\ state' = [state EXCEPT !.showResults = TRUE, !.status = "complete"]
        /\ emitted' = <<state>>
        /\ hiPc' = "idle"
        /\ result' = Returned("processHumanInput")
  /\ CountWaiting
  /\ UNCHANGED <<service, observers, runPc, itemIds, local, humanCalls, frozen>>

Next ==
  \/ LoadBudget \/ LoadSku \/ LoadWarehouse
  \/ RunStart \/ RunEmitStart \/ RunLoadCsv \/ RunDemand \/ RunPlan
  \/ RunCapacity \/ RunGate \/ RunEmitWaiting \/ RunFinish
  \/ HumanStart \/ HumanDiscuss \/ HumanModify \/ HumanConsensus \/ HumanFinish

Spec == Init /\ [][Next]_vars

(***************************************************************************)
(* Properties of the workflow state machine (specification Spec).          *)
(***************************************************************************)
\* no operation is in flight and one has ended
OperationEnded ==
  /\ result.op # "none"
  /\ runPc \in {"idle", "done"}
  /\ hiPc = "idle"

\* C1: no execution of runWorkflow or processHumanInput ends, by returning or
\* by rejecting, with the state's status still running; one that rejects has
\* left status complete and a diagnostic entry in messages.
C1_NoOperationEndsRunning ==
  OperationEnded =>
    /\ state.status # "running"
    /\ result.how = "rejected" =>
         state.status = "complete" /\ Len(state.messages) > 0

\* C2: complete is terminal: no step of the service (in particular no call of
\* processHumanInput) takes the status of a state away from complete.
C2_CompleteIsTerminal ==
  [][state.status = "complete" => state'.status = "complete"]_vars

\* C3: over the life of one workflow state status becomes waiting_for_input at
\* most once, and once processHumanInput has been called on the state its
\* status is never waiting_for_input.
C3_WaitingAtMostOnce ==
  /\ waitCount <= 1
  /\ humanCalls > 0 => state.status # "waiting_for_input"

\* a waiting run, answered by a human input that was processed to its end
C3_Witness ==
  /\ waitCount = 1
  /\ humanCalls = 1
  /\ result = Returned("processHumanInput")

AllowedStatusChange(from, to) ==
  <<from, to>> \in {<<"ready", "running">>,
                    <<"running", "waiting_for_input">>,
                    <<"waiting_for_input", "running">>,
                    <<"running", "complete">>}

\* C4: the status of a workflow state only changes along running ->
\* waiting_for_input, waiting_for_input -> running and running -> complete
\* (and ready -> running when the state is created); in particular never from
\* waiting_for_input to complete.
C4_StatusTransitions ==
  [][state'.status # state.status
       => AllowedStatusChange(state.status, state'.status)]_vars

\* the gate rule as the specification states it: some plan item whose cost
\* entry, found by the trailing segment of its id, has
\* quantity x holdingCost > quantity x shortageCost
GateRule(plan, sku) ==
  \E i \in 1..Len(plan.items) :
    LET item == plan.items[i]
        key == <<item.itemId[Len(item.itemId)]>>
    IN  /\ key \in DOMAIN sku
        /\ item.quantity * sku[key].holdingCost > item.quantity * sku[key].shortageCost

\* C5: the step of runWorkflow after the capacity stage sets status
\* waiting_for_input exactly when the gate rule holds of the capacity-clamped
\* plan; otherwise the run goes on to its final consensus with status running,
\* and its next step sets status complete without status ever having been
\* waiting_for_input.
C5_GateRule ==
  [][/\ (runPc = "gate" /\ runPc' # "gate") =>
          IF GateRule(local, skuCostData)
          THEN state'.status = "waiting_for_input" /\ runPc' = "emitWaiting"
          ELSE state'.status = "running" /\ runPc' = "finish"
     /\ (runPc = "finish" /\ runPc' # "finish") =>
          state'.status = "complete" /\ waitCount' = 0 /\ runPc' = "done"]_vars

\* the gate asks for review because of the second item only
C5_Witness ==
  /\ runPc = "emitWaiting"
  /\ state.status = "waiting_for_input"
  /\ Len(state.purchasePlan.items) = 2
  /\ ~GateRule([items |-> <<state.purchasePlan.items[1]>>], skuCostData)

\* C6: from the return of a state with status waiting_for_input until the
\* reconciliation of a human input starts, the plan of the state (items,
\* quantities, costs, aggregates, rationale) is the plan that was returned,
\* whatever the table load and processHumanInput have done meanwhile.
C6_PlanFrozenWhileWaiting ==
  frozen # << >> => state.purchasePlan = frozen[1]

\* processHumanInput is about to reconcile the plan of a waiting state while
\* the constructor's table load is still in flight
C6_Witness ==
  /\ frozen # << >>
  /\ hiPc = "modify"
  /\ loadPc = "warehouse"
  /\ Len(state.purchasePlan.items) > 0

ItemsPriced(plan) ==
  plan # Null =>
    \A i \in 1..Len(plan.items) :
      plan.items[i].totalCost = plan.items[i].quantity * plan.items[i].unitCost

\* C7: every item of every plan (the plan of the state, the plan a stage has
\* returned and that is not yet assigned, the plans of the emitted snapshots,
\* and the plan each single reconciliation rule leaves) has
\* totalCost = quantity x unitCost.
C7_ItemCostIdentity ==
  /\ ItemsPriced(state.purchasePlan)
  /\ runPc \in {"capacity", "gate"} => ItemsPriced(local)
  /\ \A k \in 1..Len(emitted) : ItemsPriced(emitted[k].purchasePlan)
  /\ (hiPc = "modify" /\ state.purchasePlan # Null) =>
       LET m0 == [plan |-> state.purchasePlan, modified |-> FALSE, chat |-> << >>]
           feedback == toLowerCase(state.humanInput.feedback)
       IN  /\ ItemsPriced(BudgetRule(m0, feedback).plan)
           /\ ItemsPriced(RiskRule(m0, feedback).plan)
           /\ ItemsPriced(MentionRule(m0, feedback).plan)
           /\ ItemsPriced(FallbackRule(m0).plan)

\* the reconciliation has reduced a quantity of a plan of two items
C7_Witness ==
  /\ hiPc = "consensus"
  /\ state.purchasePlan # Null
  /\ state.purchasePlan.reasoning.kind = "modified"
  /\ Len(state.purchasePlan.items) = 2

AggregatesAreSums(plan) ==
  plan # Null =>
    /\ plan.totalCost = SumTotalCost(plan.items)
    /\ plan.totalUnits = SumQuantity(plan.items)

\* C8: in every snapshot handed to onUpdate and in the state when runWorkflow
\* or processHumanInput has ended, a plan that is not null has totalCost equal
\* to the sum of its items' totalCost and totalUnits equal to the sum of its
\* items' quantities.
C8_AggregatesAreSums ==
  /\ \A k \in 1..Len(emitted) : AggregatesAreSums(emitted[k].purchasePlan)
  /\ OperationEnded => AggregatesAreSums(state.purchasePlan)

\* processHumanInput has returned a modified plan of two items
C8_Witness ==
  /\ result = Returned("processHumanInput")
  /\ state.purchasePlan # Null
  /\ state.purchasePlan.reasoning.kind = "modified"
  /\ Len(state.purchasePlan.items) = 2

(***************************************************************************)
(* The budget and capacity stages on their own (specification SpecStages): *)
(* runWorkflow stands before step 2 with the tables loaded, for demands,   *)
(* budgets and capacities of the sizes of the specification's examples.    *)
(***************************************************************************)
idD == <<"32", "11", "D">>

\* A and B cost 15 a unit, C costs 25 a unit; D has no cost entry
StageSku ==
  [k \in {<<"A">>, <<"B">>, <<"C">>} |->
     IF k = <<"C">> THEN [holdingCost |-> 1, shortageCost |-> 15] ELSE CostNormal]

StageDemand(id, yhat) ==
  DemandResultOf(ForecastRow(id, 1, yhat, Rat(1, 2)), [k \in {} |-> << >>], FALSE, FALSE)

\* forecasts 18, 18 and 19 give the item costs 300, 300 and 500; forecast 140
\* gives the quantity 150
StageDemands ==
  {<<StageDemand(idA, 18), StageDemand(idB, 18), StageDemand(idC, 19)>>,
   <<StageDemand(idA, 18), StageDemand(idC, 19), StageDemand(idB, 18)>>,
   <<StageDemand(idC, 19), StageDemand(idA, 18), StageDemand(idB, 18)>>,
   <<StageDemand(idA, 140)>>,
   <<StageDemand(idA, 140), StageDemand(idB, 18)>>,
   <<StageDemand(idA, 18), StageDemand(idB, 2)>>,
   <<StageDemand(idA, 0), StageDemand(idB, 18)>>,
   <<StageDemand(idD, 5), StageDemand(idA, 18)>>}

StageBudgetFiles ==
  {<< >>} \cup {<<BudgetRow(1, budget)>> : budget \in {299, 300, 500, 650}}

StageWarehouseFiles ==
  {<< >>} \cup {<<WarehouseRow(1, capacity, WarehouseId)>> : capacity \in {0, 10, 100}}

\* the state of runWorkflow when analyzeDemandRefined has returned results
AfterDemandStage(results) ==
  addChatMessage(startAgentConversation(NewState, CHOOSE policy \in Policies : TRUE),
                 [agent |-> "demand", message |-> "Analyzed items",
                  count |-> Len(results), isThinking |-> FALSE])

InitStages ==
  /\ model = FALSE
  /\ budgetData \in StageBudgetFiles
  /\ skuCostData = StageSku
  /\ warehouseConstraints \in StageWarehouseFiles
  /\ loadPc = "done"
  /\ local \in StageDemands
  /\ state = AfterDemandStage(local)
  /\ runPc = "plan"
  /\ itemIds = [i \in 1..Len(local) |-> local[i].itemId]
  /\ hiPc = "idle"
  /\ humanCalls = 0
  /\ emitted = <<state>>
  /\ result = NoResult
  /\ waitCount = 0
  /\ frozen = << >>
  /\ Unobserved

NextStages == RunPlan \/ RunCapacity

SpecStages == InitStages /\ [][NextStages]_vars

RECURSIVE CandidateCosts(_, _, _)
\* for each demand from i on: whether it has a cost entry, and its cost
\* newsvendor quantity x purchasing price when that is a finite number
CandidateCosts(demandResults, sku, i) ==
  IF i > Len(demandResults) THEN << >>
  ELSE LET key == ProductId(demandResults[i].itemId)
       IN  <<IF key \in DOMAIN sku
             THEN [entry |-> TRUE,
                   quantity |-> NewsvendorOf(demandResults, demandResults[i], sku[key]),
                   price |-> sku[key].shortageCost + PriceMarkup]
             ELSE [entry |-> FALSE]>>
           \o CandidateCosts(demandResults, sku, i + 1)

IsCandidate(c) == c.entry /\ c.quantity.kind = "fin"
CostOf(c) == IF IsCandidate(c) THEN c.quantity.val * c.price ELSE 0

\* the sum of the costs of the candidates of the set admitted that come before i
RunningTotal(costs, admitted, i) ==
  SumOver([j \in 1..Len(costs) |->
             IF j \in admitted /\ j < i THEN CostOf(costs[j]) ELSE 0], 1)

\* the place in the plan of the admitted candidate i
PlaceOf(admitted, i) == Cardinality({j \in admitted : j <= i})

\* the budget filter as the specification states it
BudgetFilterRule(costs, demandResults, availableBudget, plan) ==
  \E admitted \in SUBSET (1..Len(costs)) :
    /\ \A i \in 1..Len(costs) :
         i \in admitted <=>
           /\ IsCandidate(costs[i])
           /\ RunningTotal(costs, admitted, i) + CostOf(costs[i]) <= availableBudget
    /\ Len(plan.items) = Cardinality(admitted)
    /\ \A i \in admitted :
         /\ plan.items[PlaceOf(admitted, i)].itemId = demandResults[i].itemId
         /\ plan.items[PlaceOf(admitted, i)].totalCost = CostOf(costs[i])
    /\ plan.totalCost = RunningTotal(costs, admitted, Len(costs) + 1)
    /\ plan.totalCost <= availableBudget

CapacityFilterRule(input, capacity, output) ==
  LET kept == {i \in 1..Len(input.items) : Min(input.items[i].quantity, capacity) > 0}
  IN  /\ Len(output.items) = Cardinality(kept)
      /\ \A i \in kept :
           output.items[PlaceOf(kept, i)] =
             [input.items[i] EXCEPT
                !.quantity = Min(input.items[i].quantity, capacity),
                !.totalCost = Min(input.items[i].quantity, capacity)
                                * input.items[i].unitCost]

\* C10: the plan the capacity stage returns holds, for every item of its input
\* whose quantity clamped to the capacity is above 0, and in the same order,
\* that item with quantity min(quantity, capacity), the same unit cost and
\* totalCost = clamped quantity x unit cost; the other items are removed.
C10_CapacityFilter ==
  runPc = "gate" =>
    CapacityFilterRule(state.purchasePlan,
                       getCurrentWarehouseCapacity(warehouseConstraints, WarehouseId),
                       local)

\* quantity 150 against capacity 100 gives quantity 100 and totalCost 100 x unitCost
C10_Witness ==
  /\ runPc = "gate"
  /\ getCurrentWarehouseCapacity(warehouseConstraints, WarehouseId) = 100
  /\ Len(state.purchasePlan.items) = 2
  /\ state.purchasePlan.items[1].quantity = 150
  /\ local.items[1].quantity = 100
  /\ local.items[1].totalCost = 100 * state.purchasePlan.items[1].unitCost
  /\ local.items[2] = state.purchasePlan.items[2]

(***************************************************************************)
(* The capacity stage with a capacity that is not a whole number of units. *)
(* parseWarehouseConstraintsCSV reads the capacity with parseFloat, so a   *)
(* row may give 2.5.  In SpecHalves every quantity, every capacity and     *)
(* every amount of money derived from a quantity is counted in 1/Halves of *)
(* its unit: Math.min, the product with the unit cost, the test > 0 and    *)
(* the sums of applyWarehouseConstraints are the same at every scale.      *)
(***************************************************************************)
Halves == 2

ScaleItem(item) ==
  [item EXCEPT !.quantity = @ * Halves, !.totalCost = @ * Halves]

\* the plan of the budget stage, which holds whole quantities, in halves
ScalePlan(plan) ==
  [plan EXCEPT !.items = [i \in 1..Len(plan.items) |-> ScaleItem(plan.items[i])],
               !.totalCost = @ * Halves,
               !.totalUnits = @ * Halves]

\* capacities 0, 0.5, 1.5, 2.5, 10, 99.5 and 100 units
HalvesWarehouseFiles ==
  {<<WarehouseRow(1, capacity, WarehouseId)>> : capacity \in {0, 1, 3, 5, 20, 199, 200}}

\* the state of runWorkflow when generatePurchasePlanRefined has returned plan
AfterPlanStage(results, plan) ==
  addChatMessage([AfterDemandStage(results) EXCEPT !.demandResults = results],
                 [agent |-> "purchasing", message |-> "Applied newsvendor policy",
                  totalCost |-> plan.totalCost, totalUnits |-> plan.totalUnits,
                  weeklyBudget |-> plan.reasoning.weeklyBudget, isThinking |-> FALSE])

InitHalves ==
  /\ model = FALSE
  /\ budgetData \in StageBudgetFiles
  /\ skuCostData = StageSku
  /\ warehouseConstraints \in HalvesWarehouseFiles
  /\ loadPc = "done"
  /\ \E results \in StageDemands :
       /\ local = ScalePlan(generatePurchasePlanRefined(results, skuCostData,
                                                        getCurrentBudget(budgetData)))
       /\ state = AfterPlanStage(results, local)
       /\ itemIds = [i \in 1..Len(results) |-> results[i].itemId]
  /\ runPc = "capacity"
  /\ hiPc = "idle"
  /\ humanCalls = 0
  /\ emitted = <<state>>
  /\ result = NoResult
  /\ waitCount = 0
  /\ frozen = << >>
  /\ Unobserved

NextHalves == RunCapacity

SpecHalves == InitHalves /\ [][NextHalves]_vars

WholeQuantities(plan) ==
  plan # Null =>
    \A i \in 1..Len(plan.items) :
      /\ plan.items[i].quantity >= 0
      /\ plan.items[i].quantity % Halves = 0

\* C11: every quantity of every plan held by a workflow state, after the
\* budget stage and after the capacity stage, is a whole number of units that
\* is not negative, whatever the capacity of the warehouse table.
C11_QuantitiesAreIntegers ==
  /\ WholeQuantities(state.purchasePlan)
  /\ runPc \in {"capacity", "gate"} => WholeQuantities(local)

(***************************************************************************)
(* The current entries of the budget table and of the capacity table.      *)
(***************************************************************************)
\* the rows of the greatest date
LatestEntries(rows) ==
  {rows[i] : i \in {k \in 1..Len(rows) : \A j \in 1..Len(rows) : rows[j].date <= rows[k].date}}

\* C12: the budget the purchasing stage applies is the budget of the entry
\* with the greatest date of the budget table, and the capacity the capacity
\* stage applies is the capacity of the entry with the greatest date among the
\* entries of the fixed warehouse, whatever the order of the rows.
C12_CurrentIsLatestEntry ==
  [][/\ (runPc = "plan" /\ runPc' = "capacity" /\ Len(budgetData) > 0) =>
          \E row \in LatestEntries(budgetData) :
             local'.reasoning.weeklyBudget = row.budget
     /\ (runPc = "capacity" /\ runPc' = "gate"
           /\ Len(FilterWarehouse(warehouseConstraints, WarehouseId, 1)) > 0) =>
          \E row \in LatestEntries(FilterWarehouse(warehouseConstraints, WarehouseId, 1)) :
             local'.reasoning.warehouseCapacity = row.capacity]_vars

\* C13: a run has planned against the fallback budget only if the budget table
\* has no entry, and has clamped to the fallback capacity only if the capacity
\* table has no entry for the fixed warehouse; this holds also of a run that
\* started while the constructor's load of the tables was still in flight.
C13_FallbackOnlyWithoutEntries ==
  /\ (runPc = "capacity" /\ local.reasoning.weeklyBudget = FallbackBudget)
       => Len(budgetData) = 0
  /\ (runPc = "gate" /\ local.reasoning.warehouseCapacity = FallbackCapacity)
       => Len(FilterWarehouse(warehouseConstraints, WarehouseId, 1)) = 0

(***************************************************************************)
(* processHumanInput on the waiting states of runs with larger quantities. *)
(* SpecReconcile starts where processHumanInput awaits the discussion of   *)
(* the human input: runWorkflow has returned a waiting state and the first *)
(* statements of processHumanInput have run.                               *)
(***************************************************************************)
\* A costs 15 a unit; B and C, whose holding cost is above their shortage cost
\* and which make the gate ask for review, cost 12 a unit; the critical ratio
\* of C is 1/2, so that its quantity is its forecast
ReconcileSku ==
  [k \in {<<"A">>, <<"B">>, <<"C">>} |->
     IF k = <<"A">> THEN CostNormal
     ELSE IF k = <<"B">> THEN CostReview
     ELSE [holdingCost |-> 6, shortageCost |-> 2]]

\* forecasts 2, 18 and 84 of A give the quantities 3, 20 and 90; forecasts 2
\* and 18 of B give 3 and 25; forecast 1 of C gives 1
ReconcileDemands ==
  {<<StageDemand(idA, 84), StageDemand(idB, 18)>>,
   <<StageDemand(idA, 18), StageDemand(idB, 2)>>,
   <<StageDemand(idA, 2), StageDemand(idB, 2)>>,
   <<StageDemand(idC, 1), StageDemand(idB, 18)>>,
   <<StageDemand(idB, 18)>>}

ReconcileWarehouseFiles ==
  {<< >>} \cup {<<WarehouseRow(1, capacity, WarehouseId)>> : capacity \in {1, 2, 10, 89, 100}}

ReconcileFeedbacks ==
  {<<"that's", "too", "expensive">>,
   <<"Very", "expensive">>,
   <<"the", "cost", "is", "a", "risk">>,
   <<"very", "expensive", "and", "not", "safe">>,
   <<"play", "it", "safe">>,
   <<"be", "VERY", "conservative">>,
   <<"less", "of", "product", "a">>,
   <<"Product", "B", "is", "over", "budget">>,
   <<"drop", "32", "/", "11", "/", "b">>,
   <<"only", "Product", "C">>,
   <<"fine">>}

ReconcileInputs ==
  {[feedback |-> f, adjustments |-> [riskLevel |-> "medium"]] : f \in ReconcileFeedbacks}

\* the state runWorkflow returns when the gate asks for review: the plan of
\* the capacity stage, its chat message, and the three assignments of step 5
WaitingAfter(results, budgetPlan, plan) ==
  [addChatMessage([AfterPlanStage(results, budgetPlan) EXCEPT !.purchasePlan = budgetPlan],
                  [agent |-> "risk",
                   message |-> "Applied warehouse capacity constraints",
                   totalCost |-> plan.totalCost,
                   totalUnits |-> plan.totalUnits,
                   warehouseCapacity |-> plan.reasoning.warehouseCapacity,
                   isThinking |-> FALSE])
     EXCEPT !.purchasePlan = plan,
            !.status = "waiting_for_input",
            !.awaitingHumanInput = TRUE,
            !.showResults = FALSE]

WaitingOf(results, budgetPlan, warehouseCapacity) ==
  WaitingAfter(results, budgetPlan, applyWarehouseConstraints(budgetPlan, warehouseCapacity))

InitReconcile ==
  /\ model = FALSE
  /\ budgetData = << >>
  /\ skuCostData = ReconcileSku
  /\ warehouseConstraints \in ReconcileWarehouseFiles
  /\ loadPc = "done"
  /\ \E results \in ReconcileDemands, humanInput \in ReconcileInputs :
       /\ state = StartHumanInput(
                    WaitingOf(results,
                              generatePurchasePlanRefined(results, skuCostData,
                                                          getCurrentBudget(budgetData)),
                              getCurrentWarehouseCapacity(warehouseConstraints, WarehouseId)),
                    humanInput)
       /\ itemIds = [i \in 1..Len(results) |-> results[i].itemId]
  /\ local = Null
  /\ runPc = "done"
  /\ hiPc = "discuss"
  /\ humanCalls = 1
  /\ emitted = <<state>>
  /\ result = Returned("runWorkflow")
  /\ waitCount = 1
  /\ frozen = <<state.purchasePlan>>
  /\ Unobserved

NextReconcile == HumanDiscuss \/ HumanModify \/ HumanConsensus \/ HumanFinish

SpecReconcile == InitReconcile /\ [][NextReconcile]_vars

\* the rules as the specification states them, on quantities
SpecReduce(q, pct) == Max(1, (q * pct) \div 100)

Quantities(plan) == [i \in 1..Len(plan.items) |-> plan.items[i].quantity]

\* the lowercase feedback of the pending human input
PendingFeedback == toLowerCase(state.humanInput.feedback)

\* the step of processHumanInput that runs the reconciliation to its end
Reconciles == hiPc = "modify" /\ hiPc' = "consensus" /\ state.purchasePlan # Null

AfterBudgetRule(q, feedback) ==
  IF HasBudgetConcern(feedback)
  THEN SpecReduce(q, IF includes(feedback, <<"very">>) THEN 70 ELSE 85)
  ELSE q

AfterRiskRule(q, feedback) ==
  IF HasRiskConcern(feedback)
  THEN SpecReduce(q, IF includes(feedback, <<"very">>) THEN 75 ELSE 90)
  ELSE q

NamesNoItem(plan, feedback) ==
  \A i \in 1..Len(plan.items) : ~IsMentioned(plan.items[i], feedback)

\* C14: the budget rule maps every quantity q to max(1, floor(q x fb)) when
\* the feedback has a budget keyword, the risk rule then maps the resulting
\* quantity q1 to max(1, floor(q1 x fr)) when it has a risk keyword, and a rule
\* whose keywords are absent changes nothing; when the feedback has such a
\* keyword, names no item and the two rules change a quantity, these are the
\* quantities processHumanInput leaves.
C14_BudgetAndRiskCompound ==
  [][Reconciles =>
       LET before == Quantities(state.purchasePlan)
           m0 == [plan |-> state.purchasePlan, modified |-> FALSE, chat |-> << >>]
           m1 == BudgetRule(m0, PendingFeedback)
           expected1 == [i \in DOMAIN before |-> AfterBudgetRule(before[i], PendingFeedback)]
           expected2 == [i \in DOMAIN before |-> AfterRiskRule(expected1[i], PendingFeedback)]
       IN  /\ Quantities(m1.plan) = expected1
           /\ Quantities(RiskRule(m1, PendingFeedback).plan) = expected2
           /\ (NamesNoItem(state.purchasePlan, PendingFeedback) /\ expected2 # before)
                => Quantities(state'.purchasePlan) = expected2]_vars

\* the item's name or its id occurs in the lowercase feedback
NamedIn(item, feedback) ==
  \/ includes(feedback, toLowerCase(item.itemName))
  \/ includes(feedback, toLowerCase(JoinSlash(item.itemId, 1)))

\* the plan and the modified flag after the budget rule and the risk rule
AfterConcernRules(plan, feedback) ==
  RiskRule(BudgetRule([plan |-> plan, modified |-> FALSE, chat |-> << >>], feedback),
           feedback)

\* C15: after the budget and risk rules, whether or not they fired, the
\* named-item rule gives every item whose name or id occurs in the feedback
\* the quantity max(1, floor(q x 0.7)) of the quantity q it had then, and
\* leaves every other item as it was; when one of the three rules has changed
\* a quantity, these are the quantities processHumanInput leaves.
C15_NamedItemRule ==
  [][Reconciles =>
       LET m2 == AfterConcernRules(state.purchasePlan, PendingFeedback)
           m3 == MentionRule(m2, PendingFeedback)
           expected == [i \in 1..Len(m2.plan.items) |->
                          IF NamedIn(m2.plan.items[i], PendingFeedback)
                          THEN SpecReduce(m2.plan.items[i].quantity, 70)
                          ELSE m2.plan.items[i].quantity]
       IN  /\ Quantities(m3.plan) = expected
           /\ expected # Quantities(state.purchasePlan)
                => Quantities(state'.purchasePlan) = expected]_vars

\* the plan and the modified flag after the budget, risk and named-item rules
AfterNamedRules(plan, feedback) ==
  MentionRule(AfterConcernRules(plan, feedback), feedback)

\* C16: the quantities processHumanInput leaves are those of the budget, risk
\* and named-item rules when these changed a quantity, and otherwise (also
\* when a keyword matched but every quantity stayed as it was) every quantity
\* q has become max(1, floor(q x 0.95)).
C16_FallbackRule ==
  [][Reconciles =>
       LET before == Quantities(state.purchasePlan)
           ruled == Quantities(AfterNamedRules(state.purchasePlan, PendingFeedback).plan)
       IN  Quantities(state'.purchasePlan) =
             IF ruled # before THEN ruled
             ELSE [i \in DOMAIN before |-> SpecReduce(before[i], 95)]]_vars

\* the feedback names an item whose quantity is at its floor 1, so that the
\* named-item rule changes nothing, and the fallback has reduced the other item
C16_Witness ==
  /\ hiPc = "consensus"
  /\ PendingFeedback = <<"only", "product", "c">>
  /\ frozen = << >>
  /\ Quantities(state.purchasePlan) = <<1, 23>>
  /\ state.purchasePlan.reasoning.kind = "modified"
  /\ state.purchasePlan.reasoning.originalUnits = 1 + 25

\* C17: when processHumanInput has reconciled a plan, for every feedback and
\* every plan, the plan's rationale is the summary of the original cost and
\* units and of the new cost and units, and the aggregates are the sums over
\* the items.
C17_RationaleIsSummary ==
  [][Reconciles =>
       /\ state'.purchasePlan.reasoning =
            [kind |-> "modified",
             originalCost |-> state.purchasePlan.totalCost,
             originalUnits |-> state.purchasePlan.totalUnits,
             newCost |-> state'.purchasePlan.totalCost,
             newUnits |-> state'.purchasePlan.totalUnits]
       /\ AggregatesAreSums(state'.purchasePlan)]_vars

\* the reconciliation applied once more, with the same feedback, to a plan
Reapplied(plan, feedbackText) == Quantities(modifyPlan(plan, feedbackText).plan)

\* C18: with the feedback "that's too expensive" the reconciliation maps every
\* quantity q to max(1, floor(0.85 x q)); applied again to its result it maps
\* every quantity q1 of the result to max(1, floor(0.85 x q1)), so that every
\* quantity that is still >= 2 after the first application becomes smaller.
C18_NotIdempotent ==
  [][(Reconciles /\ PendingFeedback = <<"that's", "too", "expensive">>) =>
       LET before == Quantities(state.purchasePlan)
           once == Quantities(state'.purchasePlan)
           twice == Reapplied(state'.purchasePlan, state.humanInput.feedback)
       IN  /\ once = [i \in DOMAIN before |-> SpecReduce(before[i], 85)]
           /\ twice = [i \in DOMAIN once |-> SpecReduce(once[i], 85)]
           /\ \A i \in DOMAIN once : once[i] >= 2 => twice[i] < once[i]]_vars

\* quantities 90 and 25 have become 76 and 21, and would become 64 and 17
C18_Witness ==
  /\ hiPc = "consensus"
  /\ PendingFeedback = <<"that's", "too", "expensive">>
  /\ frozen = << >>
  /\ state.purchasePlan.reasoning.originalUnits = 90 + 25
  /\ Quantities(state.purchasePlan) = <<76, 21>>
  /\ Reapplied(state.purchasePlan, state.humanInput.feedback) = <<64, 17>>

NumbersOfResults(results) ==
  [i \in 1..Len(results) |->
     [itemId |-> results[i].itemId, itemName |-> results[i].itemName,
      targetQuantity |-> results[i].targetQuantity,
      confidence |-> results[i].confidence]]

\* the numbers of a plan: its items and its totals, without its rationale
NumbersOfPlan(plan) ==
  IF plan = Null THEN Null
  ELSE [items |-> plan.items, totalCost |-> plan.totalCost,
        totalUnits |-> plan.totalUnits]

\* the numeric outputs and the flags of a workflow state
NumbersOf(s) ==
  [demandResults |-> NumbersOfResults(s.demandResults),
   purchasePlan |-> NumbersOfPlan(s.purchasePlan),
   status |-> s.status, awaitingHumanInput |-> s.awaitingHumanInput,
   showResults |-> s.showResults]

\* no collaborator answers for any of n predictions
NoAnswers(n) == [i \in 1..n |-> FALSE]

\* C20: every step that consults the reasoning collaborator leaves the same
\* numbers as the same step without a collaborator would from the same state:
\* the demand results but for their explanations, the plan items, quantities,
\* unit costs and totals, and the gate decision, which is that of
\* checkHumanInputRequired on the plan whoever is present.
C20_NumbersIgnoreCollaborator ==
  [][/\ (runPc = "demand" /\ runPc' = "plan") =>
          \E names \in BusinessNames :
             NumbersOfResults(local') =
               NumbersOfResults(analyzeDemandResults(local, names, FALSE,
                                                     NoAnswers(Len(local))))
     /\ (runPc = "gate" /\ runPc' # "gate") =>
          /\ (runPc' = "emitWaiting") = checkHumanInputRequired(local, skuCostData)
          /\ NumbersOfPlan(state'.purchasePlan) = NumbersOfPlan(local)
          /\ runPc' = "finish" =>
               \E o \in finalAgentConsensusRefined(
                          [state EXCEPT !.purchasePlan = local], FALSE) :
                  NumbersOf(state') = NumbersOf(o.state)
     /\ (hiPc = "discuss" /\ hiPc' = "modify") =>
          \E o \in discussHumanInput(state, FALSE) :
             NumbersOf(state') = NumbersOf(o.state)
     /\ (hiPc = "consensus" /\ hiPc' = "finish") =>
          \E o \in finalAgentConsensusWithHumanInput(state, FALSE) :
             NumbersOf(state') = NumbersOf(o.state)]_vars

\* a run with the collaborator present and answering, returned with a plan
C20_Witness ==
  /\ model
  /\ runPc = "done"
  /\ result = Returned("runWorkflow")
  /\ state.status = "complete"
  /\ state.purchasePlan # Null
  /\ state.purchasePlan.totalUnits > 0
  /\ \E i \in DOMAIN state.demandResults : state.demandResults[i].reasoning = "ai"
  /\ \E i \in DOMAIN state.agentChat : state.agentChat[i].message = "ai"

(***************************************************************************)
(* The reasoning collaborator may never answer.  runWorkflow and           *)
(* processHumanInput await this.model.generateContent(...) directly: the   *)
(* await resumes when the promise settles, and nothing else settles it.    *)
(* A call that is never answered leaves the operation at "pending", and no *)
(* step leads out of it.  SpecPending is the workflow of a service whose   *)
(* tables are loaded and whose collaborator is present, with fair steps.   *)
(***************************************************************************)
PendingSku == SkuTable(CostNormal, CostReview)

InitPending ==
  /\ model = TRUE
  /\ budgetData \in BudgetFiles
  /\ skuCostData = PendingSku
  /\ warehouseConstraints \in WarehouseFiles
  /\ loadPc = "done"
  /\ state = ReadyState
  /\ runPc = "idle"
  /\ itemIds = << >>
  /\ local = Null
  /\ hiPc = "idle"
  /\ humanCalls = 0
  /\ emitted = << >>
  /\ result = NoResult
  /\ waitCount = 0
  /\ frozen = << >>
  /\ Unobserved

\* runWorkflow stays at an await of generateContent, with the state at s
RunPends(s, snaps) ==
  /\ state' = s
  /\ emitted' = snaps
  /\ runPc' = "pending"
  /\ CountWaiting
  /\ UNCHANGED <<service, observers, itemIds, local, hiPc, humanCalls, result, frozen>>

\* processHumanInput stays at an await of generateContent, with the state at s
HumanPends(s, snaps) ==
  /\ state' = s
  /\ emitted' = snaps
  /\ hiPc' = "pending"
  /\ CountWaiting
  /\ UNCHANGED <<service, observers, runPc, itemIds, local, humanCalls, result, frozen>>

\* analyzeDemandRefined: the call for the first prediction is never answered
RunDemandPending ==
  /\ runPc = "demand"
  /\ model
  /\ Len(local) > 0
  /\ RunPends(state, << >>)

\* finalAgentConsensusRefined: the two thinking messages, then the call
RunConsensusPending ==
  /\ runPc = "gate"
  /\ model
  /\ ~checkHumanInputRequired(local, skuCostData)
  /\ LET s1 == [state EXCEPT !.purchasePlan = local]
         msgs == <<Chat("demand", "Finalizing demand analysis...", TRUE),
                   Chat("purchasing", "Completing newsvendor optimization...", TRUE)>>
     IN  RunPends(addChatMessages(s1, msgs), Snapshots(s1, msgs, 2))

\* discussHumanInput: the call of the risk agent is never answered
HumanDiscussPending ==
  /\ hiPc = "discuss"
  /\ model
  /\ HumanPends(state, << >>)

\* finalAgentConsensusWithHumanInput: the thinking message, then the call
HumanConsensusPending ==
  /\ hiPc = "consensus"
  /\ model
  /\ state.purchasePlan # Null
  /\ LET msgs == <<Chat("demand", "Incorporating human feedback into final decision...", TRUE)>>
     IN  HumanPends(addChatMessages(state, msgs), Snapshots(state, msgs, 1))

NextPending ==
  \/ RunStart \/ RunEmitStart \/ RunLoadCsv \/ RunDemand \/ RunPlan
  \/ RunCapacity \/ RunGate \/ RunEmitWaiting \/ RunFinish
  \/ HumanStart \/ HumanDiscuss \/ HumanModify \/ HumanConsensus \/ HumanFinish
  \/ RunDemandPending \/ RunConsensusPending
  \/ HumanDiscussPending \/ HumanConsensusPending

\* every await but that of an unanswered call resumes: each step that can be
\* taken is taken.  RunPlan can be taken exactly when runPc = "plan", and it
\* leaves that position: its fairness is stated on the position.
FairSteps ==
  /\ WF_vars(RunStart) /\ WF_vars(RunEmitStart) /\ WF_vars(RunLoadCsv)
  /\ WF_vars(RunDemand \/ RunDemandPending)
  /\ []<>(runPc # "plan")
  /\ WF_vars(RunCapacity) /\ WF_vars(RunGate \/ RunConsensusPending)
  /\ WF_vars(RunEmitWaiting) /\ WF_vars(RunFinish)
  /\ WF_vars(HumanStart) /\ WF_vars(HumanDiscuss \/ HumanDiscussPending)
  /\ WF_vars(HumanModify) /\ WF_vars(HumanConsensus \/ HumanConsensusPending)
  /\ WF_vars(HumanFinish)

SpecPending == InitPending /\ [][NextPending]_vars /\ FairSteps

\* an operation is waiting for an answer of the collaborator
AwaitsCollaborator == runPc = "pending" \/ hiPc = "pending"

\* C21: a call to the collaborator that is never answered is ended by a
\* deadline: the operation leaves the call, and the workflow reaches
\* waiting_for_input or complete.
C21_PendingCallEnds ==
  AwaitsCollaborator ~>
    (~AwaitsCollaborator /\ state.status \in {"waiting_for_input", "complete"})

\* the last message of the agent chat of s
LastChat(s) == s.agentChat[Len(s.agentChat)]

\* the fallback texts of the catch blocks
RefinedFallback == Chat("risk", "Final supply planning output ready.", FALSE)
DiscussFallback == Chat("demand", "Updated targets considering your feedback.", FALSE)
HumanFallback ==
  Chat("risk", "Final consensus: Plan approved incorporating human feedback.", FALSE)

\* a step of the operations in which a call to the collaborator has failed:
\* the fallback explanation, or the fallback message, is what the step wrote
DemandCallFailed ==
  /\ runPc = "demand" /\ runPc' = "plan"
  /\ \E i \in DOMAIN local' : local'[i].reasoning = "local"
RefinedCallFailed ==
  /\ runPc = "gate" /\ runPc' = "finish"
  /\ LastChat(state') = RefinedFallback
DiscussCallFailed ==
  /\ hiPc = "discuss" /\ hiPc' = "modify"
  /\ LastChat(state') = DiscussFallback
HumanCallFailed ==
  /\ hiPc = "consensus" /\ hiPc' = "finish"
  /\ state.purchasePlan # Null
  /\ LastChat(state') = HumanFallback

\* C22: a failed call to the collaborator is not a workflow error.  The step
\* in which it fails adds nothing to messages, ends no operation, and leaves
\* the status, the numbers and the position that the same step leaves without
\* a collaborator, with the fallback text in place of the answer.
C22_CallFailureIsNotAnError ==
  [][model =>
       /\ DemandCallFailed =>
            /\ \E names \in BusinessNames :
                  local' = analyzeDemandResults(local, names, FALSE,
                                                NoAnswers(Len(local)))
            /\ state'.messages = state.messages
            /\ state'.status = state.status
            /\ result' = result
       /\ RefinedCallFailed =>
            /\ \E o \in finalAgentConsensusRefined(
                          [state EXCEPT !.purchasePlan = local], FALSE) :
                  /\ NumbersOf(state') = NumbersOf(o.state)
                  /\ LastChat(state') = LastChat(o.state)
            /\ state'.messages = state.messages
            /\ result' = result
       /\ DiscussCallFailed =>
            /\ \E o \in discussHumanInput(state, FALSE) :
                  /\ NumbersOf(state') = NumbersOf(o.state)
                  /\ LastChat(state') = LastChat(o.state)
            /\ state'.messages = state.messages
            /\ result' = result
       /\ HumanCallFailed =>
            /\ \E o \in finalAgentConsensusWithHumanInput(state, FALSE) :
                  /\ NumbersOf(state') = NumbersOf(o.state)
                  /\ LastChat(state') = LastChat(o.state)
            /\ state'.messages = state.messages
            /\ result' = result
       /\ (runPc = "demand" \/ hiPc \in {"discuss", "consensus"}) =>
            (Len(state'.messages) > Len(state.messages) =>
               state'.messages[Len(state'.messages)].error = "onUpdate")]_vars

\* every call of a whole session has failed, and messages is empty
C22_Witness ==
  /\ model
  /\ hiPc = "finish"
  /\ state.purchasePlan # Null
  /\ LastChat(state) = HumanFallback
  /\ \E i \in DOMAIN state.agentChat : state.agentChat[i] = DiscussFallback
  /\ \E i \in DOMAIN state.demandResults : state.demandResults[i].reasoning = "local"
  /\ state.messages = << >>

\* the demands whose product id has a cost entry
WithCostEntry(demandResults, sku) ==
  SelectSeq(demandResults, LAMBDA d : ProductId(d.itemId) \in DOMAIN sku)

\* C23: an item whose product id has no cost entry is left out of the plan and
\* fails nothing: the planning step adds no entry to messages on its account,
\* the plan is the one of the demands that have a cost entry, and every item
\* of the plan has a cost entry.
C23_MissingCostEntryIsSkipped ==
  [][runPc = "plan" =>
       /\ runPc' = "capacity" =>
            /\ NumbersOfPlan(local') =
                 NumbersOfPlan(generatePurchasePlanRefined(
                                 WithCostEntry(local, skuCostData), skuCostData,
                                 getCurrentBudget(budgetData)))
            /\ \A i \in DOMAIN local'.items :
                  ProductId(local'.items[i].itemId) \in DOMAIN skuCostData
            /\ state'.messages = state.messages
       /\ runPc' = "done" =>
            state'.messages = Append(state.messages, [error |-> "onUpdate"])]_vars

\* D has no cost entry: of the demands D and A the plan holds A alone
C23_Witness ==
  /\ runPc = "capacity"
  /\ Len(state.demandResults) = 2
  /\ state.demandResults[1].itemId = idD
  /\ Len(local.items) = 1
  /\ local.items[1].itemId = idA
  /\ local.items[1].quantity = 20
  /\ state.messages = << >>

(***************************************************************************)
(* calculateTarget.  The multiplier is given in thousandths.  The double   *)
(* 1.3 * 0.9 is 1.1700000000000002: when yhat * 1.17 is an integer, the    *)
(* double product lies above it and Math.ceil gives the next integer.  The *)
(* other eight multipliers give the ceiling of the exact product (for      *)
(* every integer yhat up to 20000).                                        *)
(***************************************************************************)
PolicyMultiplier(level) ==
  IF level = "high" THEN 1300 ELSE IF level = "medium" THEN 1150 ELSE 1000

\* confidence < 0.5 and confidence > 0.8; both are false of NaN
BelowHalf(confidence) ==
  confidence.kind = "num" /\ 2 * confidence.num < confidence.den
AboveFourFifths(confidence) ==
  confidence.kind = "num" /\ 10 * confidence.num > 8 * confidence.den

\* multiplier *= 1.2, or multiplier *= 0.9, or neither
Multiplier(confidence, level) ==
  IF BelowHalf(confidence) THEN (PolicyMultiplier(level) * 12) \div 10
  ELSE IF AboveFourFifths(confidence) THEN (PolicyMultiplier(level) * 9) \div 10
  ELSE PolicyMultiplier(level)

\* the least integer >= n / d, for d > 0
CeilDiv(n, d) == 0 - ((0 - n) \div d)

calculateTarget(pred, confidence, policy) ==
  LET m == Multiplier(confidence, policy.conservatismLevel)
      exact == CeilDiv(pred.yhat * m, 1000)
  IN  IF m = 1170 /\ pred.yhat > 0 /\ (pred.yhat * m) % 1000 = 0
      THEN exact + 1 ELSE exact

(***************************************************************************)
(* The functions on their own.  SpecPure calls one function on one input:  *)
(* runPc names the function, local holds its arguments and, after the      *)
(* call, its arguments and the value it returned.                          *)
(***************************************************************************)
NewsvendorCosts ==
  {CostNormal, CostReview, CostDegenerate, CostFree,
   [holdingCost |-> 6, shortageCost |-> 2], [holdingCost |-> 13, shortageCost |-> 3]}

\* bands in tenths: 0.8 and 1.2 times the demand, or the demand itself twice
NewsvendorInputs ==
  {[demand |-> d, low10 |-> lh[1] * d, high10 |-> lh[2] * d, cost |-> c] :
     d \in {0, 2, MaxYhat, 18}, lh \in {<<8, 12>>, <<10, 10>>}, c \in NewsvendorCosts}

QuantileDen == 60
QuantileInputs == {[pn |-> n, pd |-> QuantileDen] : n \in (0 - 2)..(QuantileDen + 2)}

\* a record with an explicit score: a number, or NaN when it does not parse
ScoredRecords ==
  {ForecastRow(idA, 1, 2, score) :
     score \in {NaN} \cup {Rat(n, 20) : n \in {0 - 1, 0, 1, 2, 3, 10, 19, 20, 21}}}

\* a record without a score field
UnscoredRecord(yhat, lo, hi) ==
  [item_id |-> idA, date |-> 1, yhat |-> yhat, lo |-> lo, hi |-> hi,
   confidence_score |-> Undefined, name |-> <<"Product", "A">>]

ConfidenceInputs ==
  ScoredRecords \cup
  {UnscoredRecord(yhat, lo, lo + w) : yhat \in {0 - 1, 0, 1, 2, 10}, lo \in {0, 1}, w \in {0, 1, 2}}

TargetInputs ==
  {[pred |-> ForecastRow(idA, 1, yhat, Rat(1, 2)), confidence |-> c,
    policy |-> [conservatismLevel |-> level, maxCost |-> FallbackBudget]] :
     yhat \in {0, 1, 7, 10, 100},
     c \in {NaN, Rat(49, 100), Rat(1, 2), Rat(4, 5), Rat(81, 100)},
     level \in {"high", "medium", "low"}}

InitPure ==
  /\ model = FALSE
  /\ budgetData = << >>
  /\ skuCostData = NoTable
  /\ warehouseConstraints = << >>
  /\ loadPc = "done"
  /\ state = ReadyState
  /\ \/ runPc = "newsvendor" /\ local \in NewsvendorInputs
     \/ runPc = "quantile" /\ local \in QuantileInputs
     \/ runPc = "confidence" /\ local \in ConfidenceInputs
     \/ runPc = "target" /\ local \in TargetInputs
  /\ itemIds = << >>
  /\ hiPc = "idle"
  /\ humanCalls = 0
  /\ emitted = << >>
  /\ result = NoResult
  /\ waitCount = 0
  /\ frozen = << >>
  /\ Unobserved

\* the function named fn returns value for the arguments in local
Returns(fn, value) ==
  /\ runPc = fn
  /\ runPc' = "returned"
  /\ local' = [fn |-> fn, args |-> local, value |-> value]
  /\ UNCHANGED <<service, observers, state, itemIds, hiPc, humanCalls, emitted, result,
                 waitCount, frozen>>

ApplyNewsvendor ==
  /\ runPc = "newsvendor"
  /\ Returns("newsvendor",
             calculateNewsvendorQuantity(local.demand, local.low10, local.high10,
                                         local.cost.holdingCost, local.cost.shortageCost))

ApplyQuantile ==
  /\ runPc = "quantile"
  /\ Returns("quantile", inverseNormalCDF(local.pn, local.pd))

ApplyConfidence ==
  /\ runPc = "confidence"
  /\ Returns("confidence", calculateConfidence(local))

ApplyTarget ==
  /\ runPc = "target"
  /\ Returns("target", calculateTarget(local.pred, local.confidence, local.policy))

NextPure == ApplyNewsvendor \/ ApplyQuantile \/ ApplyConfidence \/ ApplyTarget

SpecPure == InitPure /\ [][NextPure]_vars

\* the function named fn has returned
HasReturned(fn) == runPc = "returned" /\ local.fn = fn

\* C24: calculateNewsvendorQuantity returns a finite integer >= 0 for every
\* input, the degenerate ones included (critical ratio <= 0, critical ratio 1,
\* a band of width zero): never NaN, never infinite.
C24_QuantityIsFinite ==
  HasReturned("newsvendor") =>
    /\ local.value.kind = "fin"
    /\ local.value.val \in Nat

\* the critical ratio (p - c) / p of the arguments lies strictly between 0 and 1
ProperRatio(args) ==
  /\ args.cost.holdingCost > 0
  /\ args.cost.holdingCost < args.cost.shortageCost + PriceMarkup

\* k is the least integer >= max(0, demand + stdDev * z), where
\* stdDev = (high10 - low10) / 39.2 and z = num / den
LeastAtLeast(k, args, z) ==
  LET sg == BigSign(z.den)
      x == BigMul(BigFromInt(392 * sg), z.den)
      y == BigAdd(BigMul(BigFromInt(10 * (args.high10 - args.low10) * sg), z.num),
                  BigMul(BigFromInt(args.demand), x))
  IN  /\ k >= 0
      /\ BigSign(BigSub(BigMul(BigFromInt(k), x), y)) >= 0
      /\ k > 0 => BigSign(BigSub(BigMul(BigFromInt(k - 1), x), y)) < 0

\* mean 2, band 1.6 to 2.4, holding cost 1, shortage cost 5
ExampleArgs == [demand |-> 2, low10 |-> 16, high10 |-> 24, cost |-> CostNormal]

\* C25: for a critical ratio strictly between 0 and 1 the quantity is the least
\* integer >= max(0, mean + stdDev x quantile(CR)), with stdDev = (high - low)
\* / 3.92, price = shortageCost + 10 and CR = (price - holdingCost) / price;
\* for mean 2, band 1.6 to 2.4, holding cost 1 and shortage cost 5 it is 3.
C25_QuantityIsCeiling ==
  (HasReturned("newsvendor") /\ ProperRatio(local.args)) =>
    LET p == local.args.cost.shortageCost + PriceMarkup
        z == inverseNormalCDF(p - local.args.cost.holdingCost, p)
    IN  /\ local.value.kind = "fin"
        /\ z.kind = "fin"
        /\ LeastAtLeast(local.value.val, local.args, z)
        /\ local.args = ExampleArgs => local.value.val = 3

C25_Witness ==
  /\ HasReturned("newsvendor")
  /\ local.args = ExampleArgs
  /\ local.value = [kind |-> "fin", val |-> 3]

\* p = pn / pd lies within 1/30 of 0 or of 1
NearTail(args) ==
  /\ 0 < args.pn /\ args.pn < args.pd
  /\ (30 * args.pn <= args.pd \/ 30 * (args.pd - args.pn) <= args.pd)

\* C26: inverseNormalCDF returns -Infinity for p <= 0 and +Infinity for
\* p >= 1; for 0 < p < 1 it takes one of three regimes, and for p near 0 or
\* near 1 it is the tail approximation on sqrt(-ln(min(p, 1 - p))).
C26_QuantileRegimes ==
  HasReturned("quantile") =>
    /\ local.args.pn <= 0 => local.value.kind = "-inf"
    /\ local.args.pn >= local.args.pd => local.value.kind = "+inf"
    /\ (0 < local.args.pn /\ local.args.pn < local.args.pd) =>
         local.value.regime \in {"central", "symmetric", "tail"}
    /\ NearTail(local.args) => local.value.regime = "tail"

\* the sign of the finite value z
SignOf(z) == BigSign(z.num) * BigSign(z.den)

\* n / d < z, and z < n / d, for a finite z and d > 0
Exceeds(z, n, d) ==
  BigSign(BigSub(BigMul(BigFromInt(d * BigSign(z.den)), z.num),
                 BigMul(BigFromInt(n * BigSign(z.den)), z.den))) > 0
IsBelow(z, n, d) ==
  BigSign(BigSub(BigMul(BigFromInt(d * BigSign(z.den)), z.num),
                 BigMul(BigFromInt(n * BigSign(z.den)), z.den))) < 0

\* C27: for 0 < p < 1 inverseNormalCDF(p) is the inverse of the standard normal
\* distribution function: 0 at p = 0.5, positive above 0.5, negative below,
\* and about 1.50 at p = 0.9333 (here 56/60, between 1.49 and 1.52).
C27_QuantileIsNormalInverse ==
  (HasReturned("quantile") /\ 0 < local.args.pn /\ local.args.pn < local.args.pd) =>
    /\ local.value.kind = "fin"
    /\ 2 * local.args.pn = local.args.pd => SignOf(local.value) = 0
    /\ 2 * local.args.pn > local.args.pd => SignOf(local.value) = 1
    /\ 2 * local.args.pn < local.args.pd => SignOf(local.value) = 0 - 1
    /\ 15 * local.args.pn = 14 * local.args.pd =>
         Exceeds(local.value, 149, 100) /\ IsBelow(local.value, 152, 100)

\* C28: calculateConfidence lies in [0.1, 0.95] for every record: with an
\* explicit score, with a score that failed to parse, and without a score,
\* for a zero or negative yhat too.
C28_ConfidenceInRange ==
  HasReturned("confidence") =>
    /\ local.value.kind = "num"
    /\ local.value.den > 0
    /\ 10 * local.value.num >= local.value.den
    /\ 100 * local.value.num <= 95 * local.value.den

\* the multiplier of the specification, in thousandths
SpecMultiplier(confidence, level) ==
  LET m == IF level = "high" THEN 1300 ELSE IF level = "medium" THEN 1150 ELSE 1000
  IN  IF 2 * confidence.num < confidence.den THEN (m * 12) \div 10
      ELSE IF 10 * confidence.num > 8 * confidence.den THEN (m * 9) \div 10
      ELSE m

\* C29: calculateTarget is ceil(yhat x m), m the policy multiplier (high 1.3,
\* medium 1.15, low 1.0) times 1.2 when confidence < 0.5, times 0.9 when
\* confidence > 0.8, and as it is when 0.5 <= confidence <= 0.8.
C29_TargetIsCeiling ==
  (HasReturned("target") /\ local.args.confidence.kind = "num") =>
    LET m == SpecMultiplier(local.args.confidence,
                            local.args.policy.conservatismLevel)
    IN  /\ 1000 * local.value >= local.args.pred.yhat * m
        /\ 1000 * (local.value - 1) < local.args.pred.yhat * m

\* the forecast records the demands of the planning stages were made from
StageRecords(demandResults) ==
  [i \in 1..Len(demandResults) |->
     ForecastRow(demandResults[i].itemId, 1, demandResults[i].targetQuantity, Rat(1, 2))]

\* the record of the item with this id
RecordOf(records, itemId) ==
  records[CHOOSE i \in 1..Len(records) : records[i].item_id = itemId]

\* C30: the quantity planned for an item is calculateNewsvendorQuantity of the
\* item's forecast record: demand yhat, and the band from the record's lo to
\* the record's hi, at the item's holding and shortage cost.
C30_QuantityFromRecordBand ==
  [][(runPc = "plan" /\ runPc' = "capacity") =>
       \A i \in DOMAIN local'.items :
          LET pred == RecordOf(StageRecords(local), local'.items[i].itemId)
              cost == skuCostData[ProductId(pred.item_id)]
              q == calculateNewsvendorQuantity(pred.yhat, 10 * pred.lo, 10 * pred.hi,
                                               cost.holdingCost, cost.shortageCost)
          IN  q.kind = "fin" /\ local'.items[i].quantity = q.val]_vars

\* the flags of a state agree with its status
FlagsAgree(s) ==
  /\ s.awaitingHumanInput <=> s.status = "waiting_for_input"
  /\ s.showResults => s.status = "complete"

\* C31: in every state passed to onUpdate or returned by runWorkflow and
\* processHumanInput, awaitingHumanInput is true exactly when status is
\* waiting_for_input, and showResults is true only when status is complete.
C31_FlagsAgreeWithStatus ==
  /\ \A i \in DOMAIN emitted : FlagsAgree(emitted[i])
  /\ (OperationEnded /\ result.how = "returned") => FlagsAgree(state)

(***************************************************************************)
(* A whole session from the budget stage on (specification SpecSession):   *)
(* runWorkflow stands before step 2 with the tables loaded, runs to its    *)
(* end, and processHumanInput is then called; the budget file may hold a   *)
(* negative amount, which parseBudgetCSV's filter keeps.                   *)
(***************************************************************************)
SessionBudgetFiles == StageBudgetFiles \cup {<<BudgetRow(1, 0 - 5)>>}

InitSession ==
  /\ model = FALSE
  /\ budgetData \in SessionBudgetFiles
  /\ skuCostData \in {StageSku, ReconcileSku}
  /\ warehouseConstraints \in StageWarehouseFiles
  /\ loadPc = "done"
  /\ local \in StageDemands
  /\ state = AfterDemandStage(local)
  /\ runPc = "plan"
  /\ itemIds = [i \in 1..Len(local) |-> local[i].itemId]
  /\ hiPc = "idle"
  /\ humanCalls = 0
  /\ emitted = <<state>>
  /\ result = NoResult
  /\ waitCount = 0
  /\ frozen = << >>
  /\ Unobserved

NextSession ==
  \/ RunPlan \/ RunCapacity \/ RunGate \/ RunEmitWaiting \/ RunFinish
  \/ HumanStart \/ HumanDiscuss \/ HumanModify \/ HumanConsensus \/ HumanFinish

SpecSession == InitSession /\ [][NextSession]_vars

\* the plan of the run: the local of runWorkflow between the budget stage and
\* the gate, the plan of the state afterwards
CurrentPlan == IF runPc \in {"capacity", "gate"} THEN local ELSE state.purchasePlan

\* the plan's total is within the budget of the budget file
WithinBudgetRead ==
  CurrentPlan # Null => CurrentPlan.totalCost <= getCurrentBudget(budgetData)

AtLeastOneUnit(plan) ==
  plan # Null => \A i \in 1..Len(plan.items) : plan.items[i].quantity >= Halves

\* with whole quantities q >= 1, a reconciliation step leaves 1 <= q' <= q
ShrinksToAtLeastOne ==
  [][Reconciles =>
       /\ Len(state'.purchasePlan.items) = Len(state.purchasePlan.items)
       /\ \A i \in 1..Len(state.purchasePlan.items) :
            state.purchasePlan.items[i].quantity >= 1 =>
              /\ state'.purchasePlan.items[i].quantity >= 1
              /\ state'.purchasePlan.items[i].quantity <= state.purchasePlan.items[i].quantity]_vars

\* C33: every item of the plan that the capacity stage returns, which is the
\* plan runWorkflow hands to the gate and processHumanInput then reconciles,
\* has a quantity of at least 1 (so that max(1, floor(q * factor)) never
\* raises a quantity).
C33_ItemsReachReconciliationAtLeastOne == runPc = "gate" => AtLeastOneUnit(local)

(***************************************************************************)
(* What processHumanInput leaves alone.                                    *)
(***************************************************************************)
\* the items of a plan without their quantities and totals, in their order
PlanFrame(plan) ==
  IF plan = Null THEN << >>
  ELSE [i \in 1..Len(plan.items) |->
          <<plan.items[i].itemId, plan.items[i].itemName, plan.items[i].unitCost>>]

\* a step of processHumanInput
HumanStep == hiPc # "idle" \/ hiPc' # "idle"

\* C34: every step of processHumanInput leaves the plan's items, their order,
\* ids, names and unit costs, and demandResults, as they were; only
\* quantities, item totalCosts, plan aggregates and the rationale may change.
C34_ReconciliationFrame ==
  [][HumanStep =>
       /\ (state.purchasePlan = Null) <=> (state'.purchasePlan = Null)
       /\ PlanFrame(state'.purchasePlan) = PlanFrame(state.purchasePlan)
       /\ state'.demandResults = state.demandResults]_vars

\* processHumanInput has returned a plan of two items whose quantities it lowered
C34_Witness ==
  /\ result = Returned("processHumanInput")
  /\ state.purchasePlan # Null
  /\ Len(state.purchasePlan.items) = 2
  /\ state.purchasePlan.reasoning.kind = "modified"
  /\ state.purchasePlan.totalUnits < state.purchasePlan.reasoning.originalUnits

(***************************************************************************)
(* Items whose cost entry gives a critical ratio that is not positive.     *)
(***************************************************************************)
\* holdingCost >= shortageCost + 10 with shortageCost >= 0
IsDegenerate(item, sku) ==
  LET productId == ProductId(item.itemId)
  IN  /\ productId \in DOMAIN sku
      /\ sku[productId].shortageCost >= 0
      /\ sku[productId].holdingCost >= sku[productId].shortageCost + PriceMarkup

NoDegenerateItem(plan, sku) ==
  plan # Null => \A i \in 1..Len(plan.items) : ~IsDegenerate(plan.items[i], sku)

\* the gate is triggered only by items with shortageCost < holdingCost < shortageCost + 10
TriggersAreNarrow(plan, sku) ==
  \A i \in 1..Len(plan.items) :
    ItemNeedsReview(plan.items[i], sku) =>
      LET cost == sku[ProductId(plan.items[i].itemId)]
      IN  /\ cost.shortageCost < cost.holdingCost
          /\ cost.holdingCost < cost.shortageCost + PriceMarkup

ItemIdForms ==
  {<<idA, idB>>, <<idB, idA>>, <<idB, idA, idB>>, <<idA, idC>>, <<idC, idA, idA>>}

RangeOf(s) == {s[i] : i \in DOMAIN s}

PolicyChoices ==
  {[conservatismLevel |-> "low", maxCost |-> 0],
   [conservatismLevel |-> "low", maxCost |-> FallbackBudget],
   [conservatismLevel |-> "high", maxCost |-> FallbackBudget]}

\* no item, B or A asks for review
PolicySkuFiles ==
  {SkuTable(CostNormal, CostNormal), SkuTable(CostNormal, CostReview),
   [k \in {<<"A">>} |-> CostReview]}

InitPolicy ==
  /\ model \in BOOLEAN
  /\ budgetData \in BudgetFiles
  /\ skuCostData \in PolicySkuFiles
  /\ warehouseConstraints \in WarehouseFiles
  /\ loadPc = "done"
  /\ state = ReadyState
  /\ runPc = "idle"
  /\ itemIds = << >>
  /\ local = Null
  /\ hiPc = "idle"
  /\ humanCalls = 0
  /\ emitted = << >>
  /\ result = NoResult
  /\ waitCount = 0
  /\ frozen = << >>
  /\ panel = NoPanel
  /\ \E file \in ForecastFiles :
       history = [followed |-> TRUE, forecasts |-> file, earlier |-> Null]

\* the policy runWorkflow was called with, as step 0 wrote it to the transcript
PolicyOf(s) ==
  [conservatismLevel |-> s.agentChat[1].conservatismLevel,
   maxCost |-> s.agentChat[1].maxCost]

\* the first call of runWorkflow: step 0 with the policy of the call
RunStartWith ==
  /\ runPc = "idle"
  /\ \E ids \in ItemIdForms, policy \in PolicyChoices :
       /\ itemIds' = ids
       /\ state' = startAgentConversation(NewState, policy)
  /\ runPc' = "started"
  /\ emitted' = << >>
  /\ CountWaiting
  /\ UNCHANGED <<service, observers, local, hiPc, humanCalls, result, frozen>>

\* the second call, for the same ids, when the first has returned without
\* recording a failure
RunStartAgain ==
  /\ runPc = "done"
  /\ history.earlier = Null
  /\ result = Returned("runWorkflow")
  /\ state.messages = << >>
  /\ history' = [history EXCEPT !.earlier = [policy |-> PolicyOf(state),
                                             itemIds |-> itemIds,
                                             numbers |-> NumbersOf(state)]]
  /\ \E ids \in ItemIdForms, policy \in PolicyChoices :
       /\ RangeOf(ids) = RangeOf(itemIds)
       /\ itemIds' = ids
       /\ state' = startAgentConversation(NewState, policy)
  /\ runPc' = "started"
  /\ emitted' = << >>
  /\ local' = Null
  /\ CountWaiting
  /\ UNCHANGED <<service, panel, hiPc, humanCalls, result, frozen>>

\* loadCSVFile serves the forecast table of the session, or rejects
RunLoadServed ==
  /\ runPc = "loadCsv"
  /\ \/ RunFails(state, "load", << >>)
     \/ RunContinues(state, << >>, "demand",
                     NewestPredictions(history.forecasts, itemIds, 1))

NextPolicy ==
  \/ RunStartWith \/ RunStartAgain \/ RunEmitStart \/ RunLoadServed \/ RunDemand
  \/ RunPlan \/ RunCapacity \/ RunGate \/ RunEmitWaiting \/ RunFinish

SpecPolicy == InitPolicy /\ [][NextPolicy]_vars

\* both runs have returned and neither recorded a failure
BothRunsEnded ==
  /\ history.followed
  /\ history.earlier # Null
  /\ runPc = "done"
  /\ result = Returned("runWorkflow")
  /\ state.messages = << >>

\* C36: two runs of runWorkflow on the same forecasts, tables and itemIds,
\* whatever their policies (conservatismLevel, maxCost), return the same
\* demand numbers, plan items, quantities, costs and totals, and the same
\* status and flags.
C36_PolicyIsIgnored ==
  (BothRunsEnded /\ itemIds = history.earlier.itemIds) =>
    NumbersOf(state) = history.earlier.numbers

\* two runs with policies that differ in both fields returned a plan with an item
C36_Witness ==
  /\ BothRunsEnded
  /\ itemIds = history.earlier.itemIds
  /\ PolicyOf(state).conservatismLevel = "high"
  /\ history.earlier.policy = [conservatismLevel |-> "low", maxCost |-> 0]
  /\ state.purchasePlan # Null
  /\ Len(state.purchasePlan.items) > 0
  /\ state.purchasePlan.totalCost > 0

(***************************************************************************)
(* The items of a run and the itemIds argument.                            *)
(***************************************************************************)
\* the place of the first record of id in the forecast table
FirstAppearance(rows, id) ==
  CHOOSE i \in 1..Len(rows) :
    /\ rows[i].item_id = id
    /\ \A j \in 1..(i - 1) : rows[j].item_id # id

\* the record of id with the greatest date
NewestRecord(rows, id) ==
  rows[CHOOSE i \in 1..Len(rows) :
         /\ rows[i].item_id = id
         /\ \A j \in 1..Len(rows) : rows[j].item_id = id => rows[j].date <= rows[i].date]

\* ids is a sequence of requested ids that have records, without repetition,
\* in the order in which the ids first appear in the forecast table
InTableOrder(ids, rows, requested) ==
  /\ \A i \in 1..Len(ids) :
       /\ ids[i] \in RangeOf(requested)
       /\ \E j \in 1..Len(rows) : rows[j].item_id = ids[i]
  /\ \A i, j \in 1..Len(ids) :
       i < j => FirstAppearance(rows, ids[i]) < FirstAppearance(rows, ids[j])

IdsOf(items) == [i \in 1..Len(items) |-> items[i].itemId]

\* a run has returned without recording a failure
RunEnded ==
  /\ history.followed
  /\ runPc = "done"
  /\ result = Returned("runWorkflow")
  /\ state.messages = << >>

\* C37: the plan of runWorkflow depends on the set of requested ids only, not
\* on their order or on duplicates: a second run with the same ids in another
\* form returns the same numbers; the demand results are those of the newest
\* records of the requested ids, one for each id that has records, in the
\* order in which the ids first appear in the forecast table, and the plan
\* items follow that order, at most one for an id, every id a requested one.
C37_ItemIdsAsSet ==
  /\ BothRunsEnded => NumbersOf(state) = history.earlier.numbers
  /\ RunEnded =>
       /\ InTableOrder(IdsOf(state.demandResults), history.forecasts, itemIds)
       /\ \A id \in RangeOf(itemIds) :
            (\E j \in 1..Len(history.forecasts) : history.forecasts[j].item_id = id) =>
              \E i \in 1..Len(state.demandResults) : state.demandResults[i].itemId = id
       /\ \A i \in 1..Len(state.demandResults) :
            \E names \in BusinessNames :
              NumbersOfResults(<<state.demandResults[i]>>) =
                NumbersOfResults(<<DemandResultOf(
                                     NewestRecord(history.forecasts,
                                                  state.demandResults[i].itemId),
                                     names, FALSE, FALSE)>>)
       /\ state.purchasePlan # Null
       /\ InTableOrder(IdsOf(state.purchasePlan.items), history.forecasts, itemIds)

\* the second run was given B, A, B after the first was given A, B (or the
\* reverse), and its plan holds A then B
C37_Witness ==
  /\ BothRunsEnded
  /\ Len(itemIds) # Len(history.earlier.itemIds)
  /\ state.purchasePlan # Null
  /\ IdsOf(state.purchasePlan.items) = <<idA, idB>>

(***************************************************************************)
(* The transcript.                                                         *)
(***************************************************************************)
IsPrefixOf(s, t) == Len(s) <= Len(t) /\ SubSeq(t, 1, Len(s)) = s

\* the entries that a step has appended to the transcript
Appended == SubSeq(state'.agentChat, Len(state.agentChat) + 1, Len(state'.agentChat))

\* C38: no step of runWorkflow or processHumanInput removes or rewrites an
\* entry of agentChat, in the state or in the snapshots the step hands out;
\* the first step of a processHumanInput call appends one human entry carrying
\* the feedback, and the later steps of the call append agent entries only.
C38_TranscriptAppendOnly ==
  [][/\ IsPrefixOf(state.agentChat, state'.agentChat)
     /\ <<runPc, hiPc>>' # <<runPc, hiPc>> =>
          \A k \in DOMAIN emitted' :
             /\ IsPrefixOf(state.agentChat, emitted'[k].agentChat)
             /\ IsPrefixOf(emitted'[k].agentChat, state'.agentChat)
     /\ (hiPc = "idle" /\ humanCalls' # humanCalls) =>
          /\ Len(Appended) = 1
          /\ Appended[1].agent = "human"
          /\ Appended[1].message = state'.humanInput.feedback
     /\ ~(hiPc = "idle" /\ humanCalls' # humanCalls) =>
          \A i \in DOMAIN Appended : Appended[i].agent # "human"]_vars

\* processHumanInput has returned: the transcript of the run is followed by
\* the human entry and by four agent entries or more
C38_Witness ==
  /\ result = Returned("processHumanInput")
  /\ \E i \in DOMAIN state.agentChat :
       /\ i > 3
       /\ state.agentChat[i].agent = "human"
       /\ Len(state.agentChat) >= i + 4

\* a snapshot that shows no result yet
ShowsNoResult(s) ==
  /\ s.status \in {"running", "waiting_for_input"}
  /\ s.showResults = FALSE

\* C39: every snapshot that runWorkflow or processHumanInput passes to
\* onUpdate in a run that has recorded no failure has status running or
\* waiting_for_input and showResults false; a state with status complete and
\* showResults true is never passed to onUpdate.
C39_SnapshotsShowNoResult ==
  \A i \in DOMAIN emitted : emitted[i].messages = << >> => ShowsNoResult(emitted[i])

(***************************************************************************)
(* SimpleWorkflowPanel (specification SpecPanel).  panel holds the React   *)
(* state of the component (isRunning, result, humanFeedback,               *)
(* isProcessingInput, policy) and the position of the runWorkflow call and *)
(* of the processHumanInput call it has in flight.  A workflow state is kept as   *)
(* its status, its flags and the run it belongs to: the run started last   *)
(* ("latest") or a run started before it ("earlier").  The panel's         *)
(* onUpdate is setResult, which does not throw, so that neither call       *)
(* rejects.                                                                *)
(***************************************************************************)
StateOf(run, status, showResults) ==
  [run |-> run, status |-> status,
   awaitingHumanInput |-> (status = "waiting_for_input"),
   showResults |-> showResults]

InitPanel ==
  /\ model = FALSE
  /\ budgetData = << >>
  /\ skuCostData = NoTable
  /\ warehouseConstraints = << >>
  /\ loadPc = "done"
  /\ state = ReadyState
  /\ runPc = "idle"
  /\ itemIds = << >>
  /\ local = Null
  /\ hiPc = "idle"
  /\ humanCalls = 0
  /\ emitted = << >>
  /\ result = NoResult
  /\ waitCount = 0
  /\ frozen = << >>
  /\ history = NoHistory
  /\ panel = [mounted |-> TRUE, isRunning |-> FALSE, result |-> Null,
              humanFeedback |-> "", isProcessingInput |-> FALSE,
              conservatismLevel |-> "medium",
              runCall |-> Null, inputCall |-> Null]

PanelStep(p) ==
  /\ panel' = p
  /\ UNCHANGED <<service, workflow, history>>

\* the Risk Level select, enabled when isRunning is false
PanelSetPolicy ==
  /\ ~panel.isRunning
  /\ \E level \in {"low", "medium", "high"} :
       /\ level # panel.conservatismLevel
       /\ PanelStep([panel EXCEPT !.conservatismLevel = level])

\* the Run button, enabled when isRunning is false: runWorkflow() of the
\* component up to its await.  Every call in flight now belongs to an earlier run
PanelRunWorkflow ==
  /\ ~panel.isRunning
  /\ PanelStep([panel EXCEPT
       !.isRunning = TRUE,
       !.result = Null,
       !.humanFeedback = "",
       !.runCall = [pc |-> "started"],
       !.inputCall = IF @ = Null THEN Null ELSE [@ EXCEPT !.run = "earlier"]])

\* the place of runWorkflow after its next updateState()
AfterUpdate(pc) ==
  CASE pc = "started" -> "demand"
    [] pc = "demand" -> "plan"
    [] pc = "plan" -> "capacity"
    [] pc = "capacity" -> "gate"

\* an updateState() of steps 0 to 3 of runWorkflow: setResult(updatedState)
PanelRunUpdate ==
  /\ panel.runCall # Null
  /\ panel.runCall.pc \in {"started", "demand", "plan", "capacity"}
  /\ PanelStep([panel EXCEPT !.result = StateOf("latest", "running", FALSE),
                             !.runCall.pc = AfterUpdate(@)])

\* runWorkflow has ended: setResult(workflowResult), then setIsRunning(false)
Ended(p, status, showResults) ==
  [p EXCEPT !.result = StateOf("latest", status, showResults),
            !.isRunning = FALSE,
            !.runCall = Null]

\* the gate asks for review: the update of step 5 hands out the waiting
\* state and runWorkflow returns it at once
PanelRunWaits ==
  /\ panel.runCall # Null
  /\ panel.runCall.pc = "gate"
  /\ PanelStep(Ended(panel, "waiting_for_input", FALSE))

\* no review, collaborator present: the final consensus updates and awaits
PanelRunConsensus ==
  /\ panel.runCall # Null
  /\ panel.runCall.pc = "gate"
  /\ PanelStep([panel EXCEPT !.result = StateOf("latest", "running", FALSE),
                             !.runCall.pc = "consensus"])

\* a step of runWorkflow throws: its catch sets status complete, updates and
\* returns the state at once
PanelRunFails ==
  /\ panel.runCall # Null
  /\ panel.runCall.pc \in {"demand", "plan", "capacity"}
  /\ PanelStep(Ended(panel, "complete", FALSE))

\* no review: showResults and status complete after the final consensus
\* (which has not awaited when there is no collaborator), and the return
PanelRunReturns ==
  /\ panel.runCall # Null
  /\ panel.runCall.pc \in {"gate", "consensus"}
  /\ PanelStep(Ended(panel, "complete", TRUE))

\* the form is rendered when result.awaitingHumanInput, its controls are
\* disabled while isProcessingInput
FormEnabled ==
  /\ panel.result # Null
  /\ panel.result.awaitingHumanInput
  /\ ~panel.isProcessingInput

\* the user types feedback into the textarea
PanelType ==
  /\ FormEnabled
  /\ panel.humanFeedback = ""
  /\ PanelStep([panel EXCEPT !.humanFeedback = "feedback"])

\* submitHumanInput() up to the first await of processHumanInput, which has
\* set status running and called updateState()
PanelSubmit ==
  /\ FormEnabled
  /\ panel.humanFeedback # ""
  /\ PanelStep([panel EXCEPT
       !.isProcessingInput = TRUE,
       !.result = StateOf(panel.result.run, "running", panel.result.showResults),
       !.inputCall = [run |-> panel.result.run, pc |-> "discuss"]])

\* the place of processHumanInput after its next updateState()
AfterInputUpdate(pc) ==
  CASE pc = "discuss" -> "modify"
    [] pc = "modify" -> "consensus"
    [] pc = "consensus" -> "finish"

\* an updateState() of processHumanInput: setResult(updatedState)
PanelInputUpdate ==
  /\ panel.inputCall # Null
  /\ panel.inputCall.pc \in {"discuss", "modify", "consensus"}
  /\ PanelStep([panel EXCEPT !.result = StateOf(panel.inputCall.run, "running", FALSE),
                             !.inputCall.pc = AfterInputUpdate(@)])

\* processHumanInput returns: setResult(updatedResult), setHumanFeedback(''),
\* then setIsProcessingInput(false)
PanelInputReturns ==
  /\ panel.inputCall # Null
  /\ panel.inputCall.pc = "finish"
  /\ PanelStep([panel EXCEPT !.result = StateOf(panel.inputCall.run, "complete", TRUE),
                             !.humanFeedback = "",
                             !.isProcessingInput = FALSE,
                             !.inputCall = Null])

NextPanel ==
  \/ PanelSetPolicy \/ PanelRunWorkflow \/ PanelRunUpdate \/ PanelRunWaits \/ PanelRunConsensus
  \/ PanelRunFails \/ PanelRunReturns
  \/ PanelType \/ PanelSubmit \/ PanelInputUpdate \/ PanelInputReturns

SpecPanel == InitPanel /\ [][NextPanel]_vars

\* C40: the result the panel displays always belongs to the run started
\* last: once a new run is started, no snapshot and no returned state of an
\* earlier runWorkflow or of a processHumanInput in flight for an earlier run
\* replaces it.
C40_DisplayedResultIsLatest ==
  (panel.mounted /\ panel.result # Null) => panel.result.run = "latest"

====
